---------------------------- MODULE Spec2Model ----------------------------
(***************************************************************************)
(* A model of substacker's classification engine and content cache:        *)
(*   src/modules/labeling.py  (URL keywords, scorer, orchestrator)         *)
(*   src/modules/cache.py     (get / save / clear of the pickle cache)     *)
(*   src/modules/metadata.py  (extract_metadata, the fetch-and-cache path)  *)
(*   src/modules/config.py    (Config and the CACHE_EXPIRY_DAYS snapshot)  *)
(*   src/definitions.py       (KEYWORD_CATEGORIES)                         *)
(*                                                                         *)
(* Python strings are modelled as sequences of one-character strings, so   *)
(* that lower(), substring tests, regular-expression word boundaries and    *)
(* sorted() are computed character by character.                           *)
(*                                                                         *)
(* Scores are kept in HALVES of a point (Points(n) = 2n) because the       *)
(* content weight is 1.5: every score of the program is a multiple of 0.5, *)
(* which binary floating point represents exactly.                         *)
(***************************************************************************)
EXTENDS Integers, Sequences, FiniteSets, TLC

(***************************************************************************)
(* Strings                                                                 *)
(***************************************************************************)

\* ASCII code-point order of the characters the model uses (str comparison
\* in sorted() compares code points).
CodeOrder ==
    << " ", "#", "'", "-", ".", "/", "0", "1", ":", "?",
       "A", "B", "C", "D", "E", "F", "G", "H", "I", "J", "K", "L", "M",
       "N", "O", "P", "Q", "R", "S", "T", "U", "V", "W", "X", "Y", "Z", "_",
       "a", "b", "c", "d", "e", "f", "g", "h", "i", "j", "k", "l", "m",
       "n", "o", "p", "q", "r", "s", "t", "u", "v", "w", "x", "y", "z" >>

Chars == { CodeOrder[i] : i \in DOMAIN CodeOrder }

Ord == [ c \in Chars |-> CHOOSE i \in DOMAIN CodeOrder : CodeOrder[i] = c ]

UpperChars == { CodeOrder[i] : i \in 11..36 }
LowerChars == { CodeOrder[i] : i \in 38..63 }
DigitChars == { "0", "1" }

\* str.lower() on one character: 'A'..'Z' and 'a'..'z' are 27 places apart
\* in CodeOrder ("_" sits between them).
LowerChar(c) == IF c \in UpperChars THEN CodeOrder[Ord[c] + 27] ELSE c

\* str.lower()
Lower(s) == [ i \in 1..Len(s) |-> LowerChar(s[i]) ]

\* the regular expression class \w (ASCII letters, digits, underscore)
IsWordChar(c) == c \in UpperChars \cup LowerChars \cup DigitChars \cup {"_"}

\* the regular expression class \s, and the characters str.strip() removes
IsSpace(c) == c = " "

\* `sub in s` for strings
Contains(s, sub) ==
    \E i \in 1..(Len(s) - Len(sub) + 1) :
        \A j \in 1..Len(sub) : s[i + j - 1] = sub[j]

\* s.startswith(p)
StartsWith(s, p) ==
    /\ Len(p) <= Len(s)
    /\ \A j \in 1..Len(p) : s[j] = p[j]

\* s[i:] with i counted from 1
Drop(s, i) == SubSeq(s, i, Len(s))

\* the index of the first character of s that is in set cs, Len(s)+1 if none
FirstOf(s, cs) ==
    IF \E i \in 1..Len(s) : s[i] \in cs
    THEN CHOOSE i \in 1..Len(s) :
            /\ s[i] \in cs
            /\ \A j \in 1..(i - 1) : s[j] \notin cs
    ELSE Len(s) + 1

\* s.strip(cs)
RECURSIVE LStrip(_, _)
LStrip(s, cs) ==
    IF s # << >> /\ s[1] \in cs THEN LStrip(Tail(s), cs) ELSE s

RECURSIVE RStrip(_, _)
RStrip(s, cs) ==
    IF s # << >> /\ s[Len(s)] \in cs THEN RStrip(SubSeq(s, 1, Len(s) - 1), cs) ELSE s

Strip(s, cs) == RStrip(LStrip(s, cs), cs)

\* s.split(sep) for a one-character separator: always at least one part
RECURSIVE Split(_, _)
Split(s, sep) ==
    LET i == FirstOf(s, {sep})
    IN  IF i > Len(s) THEN << s >>
        ELSE << SubSeq(s, 1, i - 1) >> \o Split(Drop(s, i + 1), sep)

\* s.split(): parts separated by runs of whitespace, no empty part
RECURSIVE SplitWs(_)
SplitWs(s) ==
    LET t == LStrip(s, {" "})
        i == FirstOf(t, {" "})
    IN  IF t = << >> THEN << >>
        ELSE << SubSeq(t, 1, i - 1) >> \o SplitWs(Drop(t, i))

\* sep.join(parts)
RECURSIVE Join(_, _)
Join(parts, sep) ==
    IF parts = << >> THEN << >>
    ELSE IF Len(parts) = 1 THEN parts[1]
    ELSE parts[1] \o sep \o Join(Tail(parts), sep)

\* a < b for strings (lexicographic by code point)
RECURSIVE StrLess(_, _)
StrLess(a, b) ==
    IF b = << >> THEN FALSE
    ELSE IF a = << >> THEN TRUE
    ELSE IF a[1] # b[1] THEN Ord[a[1]] < Ord[b[1]]
    ELSE StrLess(Tail(a), Tail(b))

\* the elements of a sequence
Range(q) == { q[i] : i \in DOMAIN q }

\* sorted(list(set(xs))) for a list of strings
RECURSIVE SortedSet(_)
SortedSet(S) ==
    IF S = {} THEN << >>
    ELSE LET m == CHOOSE x \in S : \A y \in S \ {x} : StrLess(x, y)
         IN  << m >> \o SortedSet(S \ {m})

\* dict.get(key, default)
Get(d, key, default) == IF key \in DOMAIN d THEN d[key] ELSE default

\* the value None (a record, so that it compares with the dicts it stands in for)
None == [ none |-> TRUE ]

(***************************************************************************)
(* definitions.py                                                          *)
(***************************************************************************)

\* the category names, in the insertion order of the KEYWORD_CATEGORIES dict
CategoryOrder ==
    << <<"t","e","c","h">>, <<"b","u","s","i","n","e","s","s">>, <<"n","e","w","s">>, <<"p","o","l","i","t","i","c","s">>,
       <<"w","r","i","t","i","n","g">>, <<"c","u","l","t","u","r","e">>, <<"h","e","a","l","t","h">>, <<"s","c","i","e","n","c","e">> >>

Categories == Range(CategoryOrder)

KEYWORD_CATEGORIES ==
    [ c \in Categories |->
        CASE c = <<"t","e","c","h">> ->
            << <<"t","e","c","h">>, <<"a","i">>, <<"s","o","f","t","w","a","r","e">>, <<"c","o","d","i","n","g">>, <<"p","r","o","g","r","a","m","m","i","n","g">>, <<"d","a","t","a">>,
               <<"d","e","v","e","l","o","p","e","r">>, <<"m","a","c","h","i","n","e"," ","l","e","a","r","n","i","n","g">>, <<"s","t","a","r","t","u","p">>, <<"s","a","a","s">>, <<"a","p","i">>,
               <<"c","l","o","u","d">>, <<"c","r","y","p","t","o">>, <<"b","l","o","c","k","c","h","a","i","n">>, <<"d","e","v","o","p","s">> >>
          [] c = <<"b","u","s","i","n","e","s","s">> ->
            << <<"b","u","s","i","n","e","s","s">>, <<"f","i","n","a","n","c","e">>, <<"m","a","r","k","e","t","i","n","g">>, <<"e","c","o","n","o","m","y">>, <<"i","n","v","e","s","t","i","n","g">>,
               <<"m","o","n","e","y">>, <<"e","n","t","r","e","p","r","e","n","e","u","r">>, <<"l","e","a","d","e","r","s","h","i","p">>, <<"s","t","r","a","t","e","g","y">>, <<"g","r","o","w","t","h">>,
               <<"r","e","v","e","n","u","e">> >>
          [] c = <<"n","e","w","s">> ->
            << <<"n","e","w","s">>, <<"c","u","r","r","e","n","t"," ","e","v","e","n","t","s">>, <<"b","r","e","a","k","i","n","g">>, <<"d","a","i","l","y">>, <<"w","e","e","k","l","y">>,
               <<"r","e","p","o","r","t">>, <<"d","i","s","p","a","t","c","h">>, <<"b","r","i","e","f","i","n","g">>, <<"u","p","d","a","t","e">>, <<"h","e","a","d","l","i","n","e","s">>,
               <<"t","o","d","a","y">>, <<"m","o","r","n","i","n","g">>, <<"e","v","e","n","i","n","g">>, <<"t","i","m","e","s">>, <<"p","o","s","t">>, <<"h","e","r","a","l","d">>,
               <<"t","r","i","b","u","n","e">>, <<"j","o","u","r","n","a","l">>, <<"g","a","z","e","t","t","e">>, <<"c","h","r","o","n","i","c","l","e">>, <<"o","b","s","e","r","v","e","r">>,
               <<"r","e","p","o","r","t","e","r">>, <<"c","o","r","r","e","s","p","o","n","d","e","n","t">>, <<"j","o","u","r","n","a","l","i","s","m">>, <<"j","o","u","r","n","a","l","i","s","t">>,
               <<"n","e","w","s","r","o","o","m">>, <<"p","r","e","s","s">>, <<"w","i","r","e">>, <<"b","u","l","l","e","t","i","n">>, <<"a","l","e","r","t">>, <<"d","i","g","e","s","t">>,
               <<"r","o","u","n","d","u","p">>, <<"w","r","a","p">>, <<"r","e","c","a","p">>, <<"s","u","m","m","a","r","y">>, <<"i","n","t","e","r","n","a","t","i","o","n","a","l">>,
               <<"g","l","o","b","a","l">>, <<"w","o","r","l","d">>, <<"n","a","t","i","o","n","a","l">>, <<"l","o","c","a","l">>, <<"r","e","g","i","o","n","a","l">> >>
          [] c = <<"p","o","l","i","t","i","c","s">> ->
            << <<"p","o","l","i","t","i","c","s">>, <<"p","o","l","i","c","y">>, <<"g","o","v","e","r","n","m","e","n","t">>, <<"e","l","e","c","t","i","o","n">>, <<"d","e","m","o","c","r","a","c","y">>,
               <<"l","a","w">>, <<"c","o","n","g","r","e","s","s">>, <<"s","e","n","a","t","e">>, <<"p","o","l","i","t","i","c","a","l">>, <<"c","a","m","p","a","i","g","n">>,
               <<"v","o","t","i","n","g">>, <<"b","a","l","l","o","t">>, <<"r","e","p","u","b","l","i","c","a","n">>, <<"d","e","m","o","c","r","a","t">>, <<"c","o","n","s","e","r","v","a","t","i","v","e">>,
               <<"l","i","b","e","r","a","l">>, <<"p","r","o","g","r","e","s","s","i","v","e">> >>
          [] c = <<"w","r","i","t","i","n","g">> ->
            << <<"w","r","i","t","i","n","g">>, <<"n","e","w","s","l","e","t","t","e","r">>, <<"c","o","n","t","e","n","t">>, <<"j","o","u","r","n","a","l","i","s","m">>, <<"m","e","d","i","a">>,
               <<"p","u","b","l","i","s","h","i","n","g">>, <<"s","t","o","r","y","t","e","l","l","i","n","g">>, <<"b","l","o","g">>, <<"a","u","t","h","o","r">>, <<"e","d","i","t","o","r">> >>
          [] c = <<"c","u","l","t","u","r","e">> ->
            << <<"c","u","l","t","u","r","e">>, <<"a","r","t">>, <<"m","u","s","i","c">>, <<"f","i","l","m">>, <<"b","o","o","k">>, <<"l","i","t","e","r","a","t","u","r","e">>,
               <<"e","n","t","e","r","t","a","i","n","m","e","n","t">>, <<"p","o","p"," ","c","u","l","t","u","r","e">>, <<"c","e","l","e","b","r","i","t","y">>, <<"r","e","v","i","e","w">> >>
          [] c = <<"h","e","a","l","t","h">> ->
            << <<"h","e","a","l","t","h">>, <<"w","e","l","l","n","e","s","s">>, <<"f","i","t","n","e","s","s">>, <<"m","e","n","t","a","l"," ","h","e","a","l","t","h">>, <<"m","e","d","i","c","a","l">>,
               <<"n","u","t","r","i","t","i","o","n">>, <<"p","s","y","c","h","o","l","o","g","y">>, <<"t","h","e","r","a","p","y">>, <<"m","i","n","d","f","u","l","n","e","s","s">> >>
          [] c = <<"s","c","i","e","n","c","e">> ->
            << <<"s","c","i","e","n","c","e">>, <<"r","e","s","e","a","r","c","h">>, <<"c","l","i","m","a","t","e">>, <<"e","n","v","i","r","o","n","m","e","n","t">>, <<"p","h","y","s","i","c","s">>,
               <<"b","i","o","l","o","g","y">>, <<"c","h","e","m","i","s","t","r","y">>, <<"s","p","a","c","e">>, <<"n","a","t","u","r","e">>, <<"s","t","u","d","y">> >> ]

\* labeling.py imports KNOWN_AUTHORS from definitions, and src/definitions.py
\* does not define it.  The table (lowercased author name, or first name, ->
\* list of descriptive bio strings) is modelled from the specification's
\* KnownAuthorTable; whether the import finds it is the state variable
\* known_authors_defined.
KNOWN_AUTHORS ==
    ( <<"a","d","a"," ","k","i","n","g">> :> << <<"s","o","f","t","w","a","r","e"," ","d","e","v","e","l","o","p","e","r">>, <<"A","I"," ","r","e","s","e","a","r","c","h">> >> )
    @@ ( <<"g","r","a","c","e">> :> << <<"s","c","i","e","n","c","e"," ","j","o","u","r","n","a","l","i","s","t">> >> )

(***************************************************************************)
(* labeling.py: extract_url_keywords                                       *)
(***************************************************************************)

SchemeChars == UpperChars \cup LowerChars \cup DigitChars \cup {"-", "."}

\* urllib.parse.urlparse(url), reduced to the two components the caller
\* reads: netloc and path.  Leading whitespace is stripped; a scheme is a
\* letter followed by scheme characters up to the first ":"; a netloc is
\* present only after "//" and runs to the first "/", "?" or "#"; the path
\* runs to the first "?" or "#".
HasScheme(u, colon) ==
    /\ colon <= Len(u)
    /\ colon > 1
    /\ u[1] \in UpperChars \cup LowerChars
    /\ \A i \in 1..(colon - 1) : u[i] \in SchemeChars

\* u without its `scheme:` prefix
StripScheme(u) ==
    IF HasScheme(u, FirstOf(u, {":"}))
    THEN Drop(u, FirstOf(u, {":"}) + 1)
    ELSE u

\* the netloc of `//netloc...` and what follows it
NetlocAndTail(after) ==
    [ netloc |-> SubSeq(after, 1, FirstOf(after, {"/", "?", "#"}) - 1),
      tail |-> Drop(after, FirstOf(after, {"/", "?", "#"})) ]

SplitNetloc(rest) ==
    IF StartsWith(rest, <<"/","/">>)
    THEN NetlocAndTail(Drop(rest, 3))
    ELSE [ netloc |-> << >>, tail |-> rest ]

\* the path ends at the query or the fragment
ParsedUrl(split) ==
    [ netloc |-> split.netloc,
      path |-> SubSeq(split.tail, 1, FirstOf(split.tail, {"?", "#"}) - 1) ]

urlparse(url) == ParsedUrl(SplitNetloc(StripScheme(LStrip(url, {" "}))))

\* the tokens extract_url_keywords drops
UrlStopTokens ==
    { <<"w","w","w">>, <<"c","o","m">>, <<"o","r","g">>, <<"n","e","t">>, <<"s","u","b","s","t","a","c","k">>, <<"i","o">>, <<"c","o">> }

\* [x for x in parts if x not in stop]
RECURSIVE FilterOut(_, _)
FilterOut(parts, stop) ==
    IF parts = << >> THEN << >>
    ELSE IF parts[1] \in stop THEN FilterOut(Tail(parts), stop)
    ELSE << parts[1] >> \o FilterOut(Tail(parts), stop)

\* domain_parts + path_parts, filtered
UrlKeywordsOf(parsed) ==
    FilterOut(Split(parsed.netloc, ".")
                  \o Split(Strip(parsed.path, {"/"}), "/"),
              UrlStopTokens)

extract_url_keywords(url) ==
    IF url = << >> THEN << >> ELSE UrlKeywordsOf(urlparse(Lower(url)))

(***************************************************************************)
(* labeling.py: word_boundary_search                                       *)
(***************************************************************************)

\* the regular expression assertion \b at the gap before position p of text
\* (p in 1..Len+1): exactly one side of the gap is a word character
WordBoundary(text, p) ==
    LET before == p > 1 /\ IsWordChar(text[p - 1])
        after == p <= Len(text) /\ IsWordChar(text[p])
    IN  before # after

\* The pattern is the escaped keyword with every space replaced by \s+,
\* matched with re.IGNORECASE.  MatchFrom(text, i, keyword, j) is the set of
\* positions at which a match of keyword[j..] that starts at text position i
\* can end (the position after its last character).
RECURSIVE MatchFrom(_, _, _, _)
MatchFrom(text, i, keyword, j) ==
    IF j > Len(keyword) THEN { i }
    ELSE IF keyword[j] = " "
    THEN UNION { MatchFrom(text, e, keyword, j + 1) :
                    e \in { e2 \in (i + 1)..(Len(text) + 1) :
                              \A k \in i..(e2 - 1) : IsSpace(text[k]) } }
    ELSE IF i <= Len(text) /\ LowerChar(text[i]) = LowerChar(keyword[j])
    THEN MatchFrom(text, i + 1, keyword, j + 1)
    ELSE {}

\* Variant of word_boundary_search without the two \b: the keyword may
\* start and end anywhere.
word_boundary_search_Anywhere(text, keyword) ==
    \E i \in 1..(Len(text) + 1) : MatchFrom(text, i, keyword, 1) # { }

word_boundary_search(text, keyword) ==
    \E i \in 1..(Len(text) + 1) :
        /\ WordBoundary(text, i)
        /\ \E e \in MatchFrom(text, i, keyword, 1) : WordBoundary(text, e)

(***************************************************************************)
(* labeling.py: calculate_category_score                                   *)
(***************************************************************************)

\* the weights, in points
WEIGHT_AUTHOR_BIO == 4
WEIGHT_NAME == 3
WEIGHT_URL == 2
WEIGHT_AUTHOR == 1
\* the content weight 1.5, in halves of a point
WEIGHT_CONTENT_HALVES == 3

\* n points as a number of halves
Points(n) == n + n

\* Variant of Hit in which a hit raises the keyword's score to the weight of
\* its heaviest source instead of adding to it.
Hit_Max(acc, cond, w, evidence) ==
    IF cond
    THEN [ score |-> IF w > acc.score THEN w ELSE acc.score,
           matches |-> Append(acc.matches, evidence) ]
    ELSE acc

\* one `if ...: score += w; matches.append(...)` of the loop body
Hit(acc, cond, w, evidence) ==
    IF cond
    THEN [ score |-> acc.score + w, matches |-> Append(acc.matches, evidence) ]
    ELSE acc

\* the body of `for keyword in keywords`
ScoreKeyword(acc, keyword, name_text, author_text, url_text, content_text, author_bio_text) ==
    LET keyword_lower == Lower(keyword)
        a1 == Hit(acc,
                  author_bio_text # << >>
                      /\ word_boundary_search(author_bio_text, keyword_lower),
                  Points(WEIGHT_AUTHOR_BIO), keyword \o <<" ","i","n"," ","a","u","t","h","o","r"," ","b","i","o">>)
        a2 == Hit(a1, word_boundary_search(name_text, keyword_lower),
                  Points(WEIGHT_NAME), keyword \o <<" ","i","n"," ","n","a","m","e">>)
        a3 == Hit(a2, word_boundary_search(url_text, keyword_lower),
                  Points(WEIGHT_URL), keyword \o <<" ","i","n"," ","U","R","L">>)
        a4 == Hit(a3, word_boundary_search(author_text, keyword_lower),
                  Points(WEIGHT_AUTHOR), keyword \o <<" ","i","n"," ","a","u","t","h","o","r">>)
    IN  Hit(a4,
            content_text # << >>
                /\ word_boundary_search(content_text, keyword_lower),
            WEIGHT_CONTENT_HALVES, keyword \o <<" ","i","n"," ","c","o","n","t","e","n","t">>)

\* returns [score (in halves), matches].  The loop only ever adds to score
\* and appends to matches, so the result is formed keyword by keyword: the
\* hits of keywords[i] on a zero accumulator, then those of the keywords
\* after it.
calculate_category_score(category, keywords, text_sources) ==
    LET name_text == Lower(Get(text_sources, "name", << >>))
        author_text == Lower(Get(text_sources, "author", << >>))
        url_text == Lower(Join(Get(text_sources, "url_keywords", << >>), <<" ">>))
        content_text == Lower(Get(text_sources, "content", << >>))
        author_bio_text == Lower(Get(text_sources, "author_bio", << >>))
        zero == [ score |-> 0, matches |-> << >> ]
        RECURSIVE Loop(_)
        Loop(i) ==
            IF i > Len(keywords) THEN zero
            ELSE LET hits == ScoreKeyword(zero, keywords[i], name_text,
                                          author_text, url_text, content_text,
                                          author_bio_text)
                     rest == Loop(i + 1)
                 IN  [ score |-> hits.score + rest.score,
                       matches |-> hits.matches \o rest.matches ]
    IN  Loop(1)

(***************************************************************************)
(* State                                                                   *)
(***************************************************************************)

VARIABLES
    publications,           \* the list of publication dicts the caller holds
    known_authors_defined,  \* whether `definitions` provides KNOWN_AUTHORS
    cache_dir,              \* whether the directory Config.cache_dir exists
    cache_files,            \* cache file name -> NoFile, Corrupt or an entry
    now,                    \* datetime.now(), in ticks
    cache_expiry_days,      \* Config.cache_expiry_days
    config_max_retries,     \* Config.max_retries
    pc,                     \* "idle", or "loop" inside auto_label_publications
    args,                   \* the arguments of the running auto_label_publications
    idx,                    \* the enumerate() position of its for loop (from 1)
    runs,                   \* calls of auto_label_publications made so far
    last,                   \* history: what the latest operation did
    snapshot,               \* history: publications when the previous run returned
    written,                \* history: url -> the latest save, while it stands
    arg,                    \* the input of a pure-function call
    ret                     \* its result

vars == << publications, known_authors_defined, cache_dir, cache_files, now,
           cache_expiry_days, config_max_retries, pc, args, idx, runs, last, snapshot, written,
           arg, ret >>

(***************************************************************************)
(* Bounds                                                                  *)
(***************************************************************************)

\* clock ticks per day (the resolution of the model's datetime)
TicksPerDay == 1

\* the longest publication list given to auto_label_publications
MaxPubs == 2

\* calls of auto_label_publications in one behaviour
MaxRuns == 2

\* timedelta(days=n), in ticks
Days(n) == n * TicksPerDay

(***************************************************************************)
(* config.py                                                               *)
(***************************************************************************)

\* Config.cache_expiry_days as the class body sets it
DEFAULT_CACHE_EXPIRY_DAYS == 7

\* Config.max_retries as the class body sets it
DEFAULT_MAX_RETRIES == 2

\* the values of --retries that main() stores in Config.max_retries
RetryChoices == { 1, DEFAULT_MAX_RETRIES }

\* the module-level CACHE_EXPIRY_DAYS: the value Config.cache_expiry_days had
\* when config.py was imported; a later assignment to the class attribute
\* does not change it
CACHE_EXPIRY_DAYS == DEFAULT_CACHE_EXPIRY_DAYS

(***************************************************************************)
(* cache.py                                                                *)
(***************************************************************************)

NoFile == [ file |-> "missing" ]
\* a file whose bytes pickle.load cannot turn into an entry (a write that
\* stopped part-way leaves one)
Corrupt == [ file |-> "corrupt" ]

\* Variant of get_cache_key that gives every URL the same key.
get_cache_key_Constant(url) == << "md5", << >> >>

\* hashlib.md5(url.encode()).hexdigest(): a key that is a function of the URL
\* alone; MD5 is taken to be collision-free on the URLs of the model
get_cache_key(url) == << "md5", url >>

\* os.path.join(cache_dir, f"{cache_key}.pkl")
CacheFile(url) == << get_cache_key(url), ".pkl" >>

\* Python truthiness of a value returned by get_cached_metadata
Truthy(v) == v # None /\ DOMAIN v # {}

\* with open(cache_file, "rb") as f: pickle.load(f)
PickleLoad(file) ==
    IF file = Corrupt THEN [ exc |-> TRUE ] ELSE [ exc |-> FALSE, data |-> file ]

\* Variant of get_cached_metadata whose expiry test is age >= window.
get_cached_metadata_Ge(url, dir, files, t) ==
    IF ~dir THEN [ raised |-> FALSE, value |-> None ]
    ELSE LET cache_file == CacheFile(url)
         IN  IF files[cache_file] = NoFile
             THEN [ raised |-> FALSE, value |-> None ]
             ELSE LET loaded == PickleLoad(files[cache_file])
                  IN  IF loaded.exc
                      THEN [ raised |-> FALSE, value |-> None ]
                      ELSE IF t - loaded.data.timestamp >= Days(CACHE_EXPIRY_DAYS)
                           THEN [ raised |-> FALSE, value |-> None ]
                           ELSE [ raised |-> FALSE,
                                  value |-> loaded.data.metadata ]

\* returns [raised, value]
get_cached_metadata(url, dir, files, t) ==
    IF ~dir THEN [ raised |-> FALSE, value |-> None ]
    ELSE LET cache_file == CacheFile(url)
         IN  IF files[cache_file] = NoFile
             THEN [ raised |-> FALSE, value |-> None ]
             ELSE LET loaded == PickleLoad(files[cache_file])
                  IN  IF loaded.exc
                      THEN \* except Exception: return None
                           [ raised |-> FALSE, value |-> None ]
                      ELSE LET \* cached_data.get("timestamp") is None when the
                               \* key is missing; a datetime is always truthy
                               has_cache_time == "timestamp" \in DOMAIN loaded.data
                               age == t - loaded.data.timestamp
                           IN  IF has_cache_time
                                    /\ age > Days(CACHE_EXPIRY_DAYS)
                               THEN [ raised |-> FALSE, value |-> None ]
                               ELSE [ raised |-> FALSE,
                                      value |-> loaded.data.metadata ]

\* what the file system lets a save do
SaveOutcomes == { "ok", "makedirs_fails", "open_fails", "dump_fails" }

\* os.makedirs(cache_dir, exist_ok=True) cannot fail on a directory that exists
SaveOutcomesIn(dir) == IF dir THEN SaveOutcomes \ { "makedirs_fails" } ELSE SaveOutcomes

\* the try block of save_cached_metadata: [exc, dir, files]
SaveTry(url, metadata, outcome, dir, files, t) ==
    LET cache_file == CacheFile(url)
        cached_data == [ timestamp |-> t, url |-> url, metadata |-> metadata ]
    IN  CASE outcome = "makedirs_fails" ->
                [ exc |-> TRUE, dir |-> dir, files |-> files ]
          [] outcome = "open_fails" ->
                [ exc |-> TRUE, dir |-> TRUE, files |-> files ]
          [] outcome = "dump_fails" ->
                \* open(cache_file, "wb") truncated the file
                [ exc |-> TRUE, dir |-> TRUE,
                  files |-> [ files EXCEPT ![cache_file] = Corrupt ] ]
          [] outcome = "ok" ->
                [ exc |-> FALSE, dir |-> TRUE,
                  files |-> [ files EXCEPT ![cache_file] = cached_data ] ]

\* Variant of save_cached_metadata without the except clause.
save_cached_metadata_Raising(url, metadata, outcome, dir, files, t) ==
    LET body == SaveTry(url, metadata, outcome, dir, files, t)
    IN  [ raised |-> body.exc, dir |-> body.dir, files |-> body.files ]

\* returns [raised, dir, files]
save_cached_metadata(url, metadata, outcome, dir, files, t) ==
    LET body == SaveTry(url, metadata, outcome, dir, files, t)
    IN  \* except Exception as e: logger.debug(...)
        [ raised |-> FALSE, dir |-> body.dir, files |-> body.files ]

\* Variant of clear_cache that removes the directory entry but keeps the
\* files, so that they are back once the directory is made again.
clear_cache_KeepFiles(rmtree_ok, dir, files) ==
    IF dir
    THEN IF rmtree_ok
         THEN [ raised |-> FALSE, value |-> TRUE, dir |-> FALSE, files |-> files ]
         ELSE [ raised |-> TRUE, value |-> FALSE, dir |-> dir, files |-> files ]
    ELSE [ raised |-> FALSE, value |-> FALSE, dir |-> dir, files |-> files ]

\* returns [raised, value, dir, files]; rmtree_ok is whether shutil.rmtree
\* succeeds (it is not inside any try)
clear_cache(rmtree_ok, dir, files) ==
    IF dir
    THEN IF rmtree_ok
         THEN [ raised |-> FALSE, value |-> TRUE, dir |-> FALSE,
                files |-> [ f \in DOMAIN files |-> NoFile ] ]
         ELSE [ raised |-> TRUE, value |-> FALSE, dir |-> dir, files |-> files ]
    ELSE [ raised |-> FALSE, value |-> FALSE, dir |-> dir, files |-> files ]

(***************************************************************************)
(* metadata.py                                                             *)
(***************************************************************************)

\* Variant of EmptyMetadata that starts with a text in content_text.
EmptyMetadata_Stale == [ description |-> << >>, content_text |-> <<"e","r","r","o","r"," ","p","a","g","e">> ]

\* the metadata dict, reduced to the fields the engine reads
EmptyMetadata == [ description |-> << >>, content_text |-> << >> ]

\* what requests.get answers to one attempt: a page, a timeout, or any other
\* failure (connection error, HTTP error status, parse error)
Timeout == [ answer |-> "timeout" ]
Failure == [ answer |-> "failure" ]

\* the metadata a successfully fetched page gives
PageMetadata(page) ==
    [ description |-> page.description, content_text |-> Lower(page.text) ]

\* the default max_retries of analyze_publication_content
ANALYZE_MAX_RETRIES == 2

\* extract_metadata returns [metadata, dir, files, requests, reads, writes,
\* save_raised]; net[k] is the answer to the k-th request, save_outcome what
\* the file system lets a save do

\* a return that wrote nothing
Fetched(metadata, requests, reads, dir, files) ==
    [ metadata |-> metadata, dir |-> dir, files |-> files,
      requests |-> requests, reads |-> reads, writes |-> 0,
      save_raised |-> FALSE ]

\* the return after save_cached_metadata(url, metadata); a raising save
\* would reach `except Exception: break`, and metadata be returned all the same
FetchedAndSaved(metadata, requests, reads, saved) ==
    [ metadata |-> metadata, dir |-> saved.dir, files |-> saved.files,
      requests |-> requests, reads |-> reads, writes |-> 1,
      save_raised |-> saved.raised ]

\* Variant of PageFetched that never saves what it fetched.
PageFetched_NoSave(url, metadata, requests, reads, use_cache, save_outcome, dir, files, t) ==
    Fetched(metadata, requests, reads, dir, files)

\* the end of the try block on a page that was fetched and parsed
PageFetched(url, metadata, requests, reads, use_cache, save_outcome, dir, files, t) ==
    IF use_cache
    THEN FetchedAndSaved(metadata, requests, reads,
                         save_cached_metadata(url, metadata, save_outcome, dir,
                                              files, t))
    ELSE Fetched(metadata, requests, reads, dir, files)

\* Variant of Attempt that goes on to the next attempt after any error.
RECURSIVE Attempt_RetryAll(_, _, _, _, _, _, _, _, _, _)
Attempt_RetryAll(attempt, url, max_retries, reads, use_cache, net, save_outcome, dir, files, t) ==
    IF attempt >= max_retries
    THEN Fetched(EmptyMetadata, attempt, reads, dir, files)
    ELSE IF net[attempt + 1] \in { Timeout, Failure }
         THEN Attempt_RetryAll(attempt + 1, url, max_retries, reads, use_cache,
                               net, save_outcome, dir, files, t)
         ELSE PageFetched(url, PageMetadata(net[attempt + 1]), attempt + 1,
                          reads, use_cache, save_outcome, dir, files, t)

\* for attempt in range(max_retries)
RECURSIVE Attempt(_, _, _, _, _, _, _, _, _, _)
Attempt(attempt, url, max_retries, reads, use_cache, net, save_outcome, dir, files, t) ==
    IF attempt >= max_retries
    THEN Fetched(EmptyMetadata, attempt, reads, dir, files)
    ELSE CASE net[attempt + 1] = Timeout ->
                \* `continue`, or the warning and the end of range()
                Attempt(attempt + 1, url, max_retries, reads, use_cache, net,
                        save_outcome, dir, files, t)
           [] net[attempt + 1] = Failure ->
                \* except Exception: break
                Fetched(EmptyMetadata, attempt + 1, reads, dir, files)
           [] OTHER ->
                PageFetched(url, PageMetadata(net[attempt + 1]), attempt + 1,
                            reads, use_cache, save_outcome, dir, files, t)

\* `if cached: return cached`
AfterCacheCheck(cached, url, max_retries, net, save_outcome, dir, files, t) ==
    IF Truthy(cached)
    THEN Fetched(cached, 0, 1, dir, files)
    ELSE Attempt(0, url, max_retries, 1, TRUE, net, save_outcome, dir, files, t)

extract_metadata(url, max_retries, use_cache, net, save_outcome, dir, files, t) ==
    IF use_cache
    THEN AfterCacheCheck(get_cached_metadata(url, dir, files, t).value, url,
                         max_retries, net, save_outcome, dir, files, t)
    ELSE Attempt(0, url, max_retries, 0, FALSE, net, save_outcome, dir, files, t)

\* return metadata.get("content_text", "")
ContentOf(call) ==
    [ content |-> Get(call.metadata, "content_text", << >>), call |-> call ]

\* returns the record of extract_metadata with the field content added
analyze_publication_content(url, net, save_outcome, dir, files, t) ==
    ContentOf(extract_metadata(url, ANALYZE_MAX_RETRIES, TRUE, net,
                               save_outcome, dir, files, t))

(***************************************************************************)
(* The inputs of the model                                                 *)
(***************************************************************************)

Link1 == <<"h","t","t","p","s",":","/","/","t","e","c","h",".","s","u","b","s","t","a","c","k",".","c","o","m","/">>
Link2 == <<"h","t","t","p","s",":","/","/","w","w","w",".","m","b","o","x",".","i","o","/","p","/","o","n","e">>
Link3 == <<"h","t","t","p","s",":","/","/","b","o","b",".","s","u","b","s","t","a","c","k",".","c","o","m","/","c","o","d","e">>

Links == { Link1, Link2, Link3 }

\* what each site serves: the text extract_metadata gathers from the page
\* (title, description, about, body) and its meta description
Web ==
    ( Link1 :> [ text |-> <<"N","o","t","e","s"," ","o","n"," ","T","e","c","h"," ","a","n","d"," ","A","I">>, description |-> <<"N","o","t","e","s">> ] )
    @@ ( Link2 :> [ text |-> <<"M","u","s","i","c"," ","b","o","x">>, description |-> << >> ] )
    @@ ( Link3 :> [ text |-> <<"H","e"," ","s","a","i","d"," ","h","e","l","l","o"," ","t","o"," ","m","u","s","i","c">>, description |-> << >> ] )

\* publication records as the scraper builds them (link, name, author when
\* the page has one, is_paid) and as a caller may pass them (keys missing,
\* labels already present)
Roster ==
    << [ name |-> <<"L","e","t","t","e","r","s">>, author |-> <<"A","d","a"," ","K","i","n","g">>, link |-> << >>,
         is_paid |-> FALSE, labels |-> << <<"c","u","s","t","o","m">> >> ],
       [ name |-> <<"T","e","c","h"," ","N","o","t","e","s">>, author |-> <<"A","n","n">>, link |-> Link1,
         is_paid |-> TRUE ],
       [ name |-> <<"M","u","s","i","c"," ","B","o","x">>, author |-> <<"T","i","m"," ","W","i","r","e">>, link |-> Link2 ],
       [ name |-> <<"B","o","b","'","s"," ","N","o","t","e","s">>, author |-> <<"B","o","b">>, link |-> Link3,
         is_paid |-> FALSE, labels |-> << >> ],
       [ name |-> <<"L","e","g","a","l"," ","O","b","j","e","c","t","i","o","n">> ] >>

PublicationPool == Range(Roster)

\* the input lists: 1..MaxPubs publications that follow each other in Roster
PublicationLists ==
    UNION { { SubSeq(Roster, i, i + n - 1) : i \in 1..(Len(Roster) - n + 1) } :
              n \in 1..MaxPubs }

\* the answers of the network to the successive requests of one fetch
NetScripts ==
    { << Web[u] >> : u \in Links } \cup { << Timeout, Web[u] >> : u \in Links }
    \cup { << Failure >>, << Timeout, Failure >>, << Timeout, Timeout >> }

\* the scripts in which the site `link` answers
NetScriptsFor(link) ==
    { n \in NetScripts : \A k \in DOMAIN n : n[k] \in { Timeout, Failure, Web[link] } }

(***************************************************************************)
(* labeling.py: auto_label_publications, one publication                   *)
(***************************************************************************)

\* the thresholds of the two `if score >= ...` tests, in points
BASE_THRESHOLD == 1
FOCUSED_THRESHOLD == 5

\* `len(kw) > 3` of the URL fallback
URL_TOKEN_MIN_LEN == 3

\* pub["labels"] = value (the key is created when missing)
\* Variant of SetLabels that keeps nothing of the publication but its labels.
SetLabels_Only(pub, value) == [ labels |-> value ]

\* pub["labels"] = value
SetLabels(pub, value) ==
    [ k \in DOMAIN pub \cup { "labels" } |->
        IF k = "labels" THEN value ELSE pub[k] ]

\* Variant of SkipCheck that never skips.
SkipCheck_Never(pub, skip_if_labeled) == FALSE

\* skip_if_labeled and pub.get("labels") and len(pub["labels"]) > 0
SkipCheck(pub, skip_if_labeled) ==
    /\ skip_if_labeled
    /\ Get(pub, "labels", << >>) # << >>
    /\ Len(pub["labels"]) > 0

\* Variant of PaymentLabel that takes a missing is_paid for a paid one.
PaymentLabel_AbsentPaid(pub) ==
    IF Get(pub, "is_paid", TRUE) THEN <<"p","a","i","d">> ELSE <<"f","r","e","e">>

\* the payment label
PaymentLabel(pub) ==
    IF Get(pub, "is_paid", FALSE) THEN <<"p","a","i","d">> ELSE <<"f","r","e","e">>

\* text_sources['author_bio']
AuthorBio(pub) ==
    LET author_name == Strip(Lower(Get(pub, "author", << >>)), {" "})
    IN  IF author_name \in DOMAIN KNOWN_AUTHORS
        THEN Join(KNOWN_AUTHORS[author_name], <<" ">>)
        ELSE LET first_name == IF author_name # << >>
                               THEN SplitWs(author_name)[1]
                               ELSE << >>
             IN  IF first_name # << >> /\ first_name \in DOMAIN KNOWN_AUTHORS
                 THEN Join(KNOWN_AUTHORS[first_name], <<" ">>)
                 ELSE << >>

\* text_sources['content'] and what getting it did to the cache:
\* [content, dir, files, requests, reads, writes, save_raised]

\* no content analysis, or the content of a cache hit
ContentKnown(content, dir, files, reads) ==
    [ content |-> content, dir |-> dir, files |-> files, requests |-> 0,
      reads |-> reads, writes |-> 0, save_raised |-> FALSE ]

\* content = analyze_publication_content(pub['link'])
ContentFetched(r, reads) ==
    [ content |-> r.content,
      dir |-> r.call.dir, files |-> r.call.files,
      requests |-> r.call.requests,
      reads |-> reads + r.call.reads,
      writes |-> r.call.writes,
      save_raised |-> r.call.save_raised ]

\* `if cached_metadata: ... else: ...`
ContentFrom(cached_metadata, reads, pub, net, save_outcome, dir, files, t) ==
    IF Truthy(cached_metadata)
    THEN ContentKnown(Get(cached_metadata, "content_text", << >>), dir, files,
                      reads)
    ELSE ContentFetched(analyze_publication_content(pub["link"], net,
                                                    save_outcome, dir, files, t),
                        reads)

ContentAnalysis(pub, a, net, save_outcome, dir, files, t) ==
    IF a.analyze_content /\ Get(pub, "link", << >>) # << >>
    THEN IF a.use_cache
         THEN ContentFrom(get_cached_metadata(pub["link"], dir, files, t).value,
                          1, pub, net, save_outcome, dir, files, t)
         ELSE ContentFrom(None, 0, pub, net, save_outcome, dir, files, t)
    ELSE ContentKnown(<< >>, dir, files, 0)

\* Variant of ThresholdLabels that gives a category its focused label in
\* place of its base label (if / elif).
ThresholdLabels_Elif(scores) ==
    LET RECURSIVE Loop(_)
        Loop(i) ==
            IF i > Len(CategoryOrder) THEN << >>
            ELSE LET category == CategoryOrder[i]
                     score == scores[category].score
                     focused == IF score >= Points(FOCUSED_THRESHOLD)
                                THEN << category \o <<"-","f","o","c","u","s","e","d">> >> ELSE << >>
                     base == IF score >= Points(BASE_THRESHOLD) /\ focused = << >>
                             THEN << category >> ELSE << >>
                 IN  IF score > 0
                     THEN base \o focused \o Loop(i + 1)
                     ELSE Loop(i + 1)
    IN  Loop(1)

\* Variant of ThresholdLabels whose two tests are strict (score > threshold).
ThresholdLabels_Strict(scores) ==
    LET RECURSIVE Loop(_)
        Loop(i) ==
            IF i > Len(CategoryOrder) THEN << >>
            ELSE LET category == CategoryOrder[i]
                     score == scores[category].score
                     base == IF score > Points(BASE_THRESHOLD)
                             THEN << category >> ELSE << >>
                     focused == IF score > Points(FOCUSED_THRESHOLD)
                                THEN << category \o <<"-","f","o","c","u","s","e","d">> >> ELSE << >>
                 IN  IF score > 0
                     THEN base \o focused \o Loop(i + 1)
                     ELSE Loop(i + 1)
    IN  Loop(1)

\* the labels the threshold loop appends: category_scores holds the
\* categories with score > 0, in the order of KEYWORD_CATEGORIES
ThresholdLabels(scores) ==
    LET RECURSIVE Loop(_)
        Loop(i) ==
            IF i > Len(CategoryOrder) THEN << >>
            ELSE LET category == CategoryOrder[i]
                     score == scores[category].score
                     base == IF score >= Points(BASE_THRESHOLD)
                             THEN << category >> ELSE << >>
                     focused == IF score >= Points(FOCUSED_THRESHOLD)
                                THEN << category \o <<"-","f","o","c","u","s","e","d">> >> ELSE << >>
                 IN  IF score > 0
                     THEN base \o focused \o Loop(i + 1)
                     ELSE Loop(i + 1)
    IN  Loop(1)

\* `if cond: labels.append(label)`
AppendIf(labels, cond, label) == IF cond THEN Append(labels, label) ELSE labels

\* Variant of UrlTokenLabel without the test of the token's length.
UrlTokenLabel_AnyLength(kw) ==
    IF kw \in { <<"t","e","c","h">>, <<"c","o","d","e">>, <<"d","e","v">>, <<"e","n","g","i","n","e","e","r","i","n","g">> } THEN << <<"t","e","c","h">> >>
    ELSE IF kw \in { <<"n","e","w","s">>, <<"d","a","i","l","y">>, <<"w","e","e","k","l","y">>, <<"n","e","w","s","l","e","t","t","e","r">> } THEN << <<"n","e","w","s">> >>
    ELSE IF kw \in { <<"m","u","s","i","c">>, <<"b","a","n","d">>, <<"a","l","b","u","m">> } THEN << <<"m","u","s","i","c">> >>
    ELSE IF kw \in { <<"o","b","j","e","c","t","i","o","n">>, <<"l","e","g","a","l">>, <<"l","a","w","y","e","r">> } THEN << <<"l","a","w">> >>
    ELSE << >>

\* the label the URL fallback gives one token, << >> when none
UrlTokenLabel(kw) ==
    IF Len(kw) > URL_TOKEN_MIN_LEN
    THEN IF kw \in { <<"t","e","c","h">>, <<"c","o","d","e">>, <<"d","e","v">>, <<"e","n","g","i","n","e","e","r","i","n","g">> } THEN << <<"t","e","c","h">> >>
         ELSE IF kw \in { <<"n","e","w","s">>, <<"d","a","i","l","y">>, <<"w","e","e","k","l","y">>, <<"n","e","w","s","l","e","t","t","e","r">> } THEN << <<"n","e","w","s">> >>
         ELSE IF kw \in { <<"m","u","s","i","c">>, <<"b","a","n","d">>, <<"a","l","b","u","m">> } THEN << <<"m","u","s","i","c">> >>
         ELSE IF kw \in { <<"o","b","j","e","c","t","i","o","n">>, <<"l","e","g","a","l">>, <<"l","a","w","y","e","r">> } THEN << <<"l","a","w">> >>
         ELSE << >>
    ELSE << >>

\* Variant of PossessiveRule without the test of the labels.
PossessiveRule_Unguarded(name_lower, labels) ==
    Contains(name_lower, <<"'","s"," ">>) \/ Contains(name_lower, <<"b","y">>)

\* whether the possessive rule of the fallback block appends "writing"
PossessiveRule(name_lower, labels) ==
    /\ Contains(name_lower, <<"'","s"," ">>) \/ Contains(name_lower, <<"b","y">>)
    /\ <<"l","a","w">> \notin Range(labels)
    /\ <<"m","u","s","i","c">> \notin Range(labels)

\* Variant of FallbackGate that lets one scored label through
\* (len(labels) <= 2).
FallbackGate_Two(labels) == Len(labels) <= 2

\* whether the fallback block runs
FallbackGate(labels) == Len(labels) <= 1

\* the body of the fallback block: labels with the fallback labels appended
Fallback(pub, labels, url_keywords) ==
    LET name_lower == Lower(Get(pub, "name", << >>))
        author_lower == Lower(Get(pub, "author", << >>))
        l1 == AppendIf(labels,
                       author_lower # << >> /\ name_lower # << >>
                           /\ Contains(name_lower, author_lower),
                       <<"w","r","i","t","i","n","g">>)
        l2 == AppendIf(l1, author_lower = << >> \/ author_lower = name_lower,
                       <<"w","r","i","t","i","n","g">>)
        l3 == AppendIf(l2,
                       \/ Contains(name_lower, <<"o","b","j","e","c","t","i","o","n">>)
                       \/ Contains(name_lower, <<"l","a","w","y","e","r">>)
                       \/ Contains(name_lower, <<"l","e","g","a","l">>),
                       <<"l","a","w">>)
        l4 == AppendIf(l3,
                       \/ Contains(name_lower, <<"m","u","s","i","c">>)
                       \/ Contains(name_lower, <<"b","a","n","d">>)
                       \/ Contains(name_lower, <<"s","o","n","g">>),
                       <<"m","u","s","i","c">>)
        l5 == AppendIf(l4, PossessiveRule(name_lower, l4), <<"w","r","i","t","i","n","g">>)
        RECURSIVE UrlLoop(_, _)
        UrlLoop(i, acc) ==
            IF i > Len(url_keywords) THEN acc
            ELSE UrlLoop(i + 1, acc \o UrlTokenLabel(url_keywords[i]))
    IN  UrlLoop(1, l5)

\* Variant of Finalize that keeps the list as the steps built it.
Finalize_AsBuilt(labels) == labels

\* pub["labels"] = sorted(list(set(labels)))
Finalize(labels) == SortedSet(Range(labels))

\* the text_sources dict of a publication whose content analysis gave `content`
TextSources(pub, content) ==
    [ name |-> Get(pub, "name", << >>),
      author |-> Get(pub, "author", << >>),
      url_keywords |-> extract_url_keywords(Get(pub, "link", << >>)),
      content |-> content,
      author_bio |-> AuthorBio(pub) ]

\* calculate_category_score for every category of KEYWORD_CATEGORIES
ScoreAll(text_sources) ==
    [ c \in Categories |->
        calculate_category_score(c, KEYWORD_CATEGORIES[c], text_sources) ]

\* The part of one iteration that does no I/O, in the order of the code:
\* Classify gives the labels of a publication whose content analysis gave
\* `content`, with the intermediate values.

\* pub["labels"] = sorted(list(set(labels))), and what the steps produced
ClassifyResult(payment, url_keywords, scores, threshold, fallback_ran, labels) ==
    [ payment |-> payment,
      url_keywords |-> url_keywords,
      scores |-> [ c \in Categories |-> scores[c].score ],
      threshold_labels |-> threshold,
      fallback_ran |-> fallback_ran,
      fallback_labels |-> SubSeq(labels, Len(threshold) + 2, Len(labels)),
      labels |-> Finalize(labels) ]

\* the fallback block on the labels of the payment and threshold steps
ClassifyFallback(pub, payment, url_keywords, scores, threshold, scored) ==
    ClassifyResult(payment, url_keywords, scores, threshold,
                   FallbackGate(scored),
                   IF FallbackGate(scored)
                   THEN Fallback(pub, scored, url_keywords)
                   ELSE scored)

\* the threshold loop
ClassifyThreshold(pub, payment, url_keywords, scores, threshold) ==
    ClassifyFallback(pub, payment, url_keywords, scores, threshold,
                     << payment >> \o threshold)

\* the scoring loop
ClassifyScored(pub, url_keywords, scores) ==
    ClassifyThreshold(pub, PaymentLabel(pub), url_keywords, scores,
                      ThresholdLabels(scores))

ClassifySources(pub, text_sources) ==
    ClassifyScored(pub, text_sources.url_keywords, ScoreAll(text_sources))

Classify(pub, content) == ClassifySources(pub, TextSources(pub, content))

\* a publication without its labels (no step of Classify reads them)
Unlabeled(pub) == [ k \in DOMAIN pub \ { "labels" } |-> pub[k] ]

\* Classify, evaluated once for each publication and content the model's
\* inputs can give (a table, so that it is computed once; it holds nothing
\* Classify does not compute)
ClassifyTable ==
    [ key \in { << Unlabeled(p), c >> :
                  p \in PublicationPool,
                  c \in { << >> } \cup { Lower(Web[u].text) : u \in Links } } |->
        Classify(key[1], key[2]) ]

\* Classify(pub, content), from the table when it holds the pair
ClassifyOf(pub, content) ==
    Get(ClassifyTable, << Unlabeled(pub), content >>, Classify(pub, content))

\* the publication with its labels set, the cache afterwards, and the
\* intermediate values of the iteration
LabelResult(pub, analysis, class) ==
    [ pub |-> SetLabels(pub, class.labels),
      dir |-> analysis.dir,
      files |-> analysis.files,
      content |-> analysis.content,
      class |-> class,
      requests |-> analysis.requests,
      reads |-> analysis.reads,
      writes |-> analysis.writes,
      save_raised |-> analysis.save_raised ]

LabelAnalysed(pub, analysis) ==
    LabelResult(pub, analysis, ClassifyOf(pub, analysis.content))

\* One iteration of the for loop on a publication that is not skipped
LabelPublication(pub, a, net, save_outcome, dir, files, t) ==
    LabelAnalysed(pub,
                  ContentAnalysis(pub, a, net, save_outcome, dir, files, t))

(***************************************************************************)
(* labeling.py: filter_labels                                              *)
(***************************************************************************)

\* [l for l in labels if l in include_labels]
KeepIncluded(labels, include_labels) ==
    SelectSeq(labels, LAMBDA l : l \in Range(include_labels))

\* [l for l in labels if l not in exclude_labels]
DropExcluded(labels, exclude_labels) ==
    SelectSeq(labels, LAMBDA l : l \notin Range(exclude_labels))

\* Variant of FilterPub in which the exclude list is applied only when no
\* include list is (an elif).
FilterPub_Elif(pub, include_labels, exclude_labels) ==
    IF "labels" \in DOMAIN pub /\ pub.labels # << >>
    THEN IF include_labels # << >>
         THEN SetLabels(pub, KeepIncluded(pub.labels, include_labels))
         ELSE SetLabels(pub, DropExcluded(pub.labels, exclude_labels))
    ELSE pub

\* the body of the for loop: the two `if` in sequence
FilterPub(pub, include_labels, exclude_labels) ==
    IF "labels" \in DOMAIN pub /\ pub.labels # << >>
    THEN SetLabels(pub,
             \* `if exclude_labels:` needs no test here: dropping the labels
             \* of an empty list drops none
             DropExcluded(IF include_labels # << >>
                          THEN KeepIncluded(pub.labels, include_labels)
                          ELSE pub.labels,
                          exclude_labels))
    ELSE pub

\* include_labels and exclude_labels are lists; the code tests only their
\* truth value, so << >> stands for None as well as for []
filter_labels(pubs, include_labels, exclude_labels) ==
    IF include_labels = << >> /\ exclude_labels = << >>
    THEN pubs
    ELSE [ i \in DOMAIN pubs |-> FilterPub(pubs[i], include_labels, exclude_labels) ]

(***************************************************************************)
(* auto_label_publications as a process                                    *)
(***************************************************************************)

Boot ==
    /\ cache_dir = FALSE
    /\ cache_files = [ f \in { CacheFile(u) : u \in Links } |-> NoFile ]
    /\ now = 0
    /\ cache_expiry_days = DEFAULT_CACHE_EXPIRY_DAYS
    /\ pc = "idle"
    /\ args = None
    /\ idx = 0
    /\ runs = 0
    /\ last = [ op |-> "init" ]
    /\ snapshot = [ returned |-> FALSE ]
    /\ written = [ u \in Links |-> None ]
    /\ ret = None

Init ==
    /\ Boot
    /\ config_max_retries \in RetryChoices
    /\ publications \in PublicationLists
    /\ known_authors_defined \in BOOLEAN
    /\ arg = None

\* the call, up to the for loop: the import of line 91 raises ImportError
\* when definitions has no KNOWN_AUTHORS
StartRun(analyze_content, skip_if_labeled, use_cache) ==
    /\ pc = "idle"
    /\ runs < MaxRuns
    /\ runs' = runs + 1
    /\ LET a == [ analyze_content |-> analyze_content,
                  skip_if_labeled |-> skip_if_labeled,
                  use_cache |-> use_cache ]
       IN  IF known_authors_defined
           THEN /\ pc' = "loop"
                /\ args' = a
                /\ idx' = 1
                /\ last' = [ op |-> "call", raised |-> FALSE, args |-> a ]
           ELSE /\ pc' = "idle"
                /\ args' = None
                /\ idx' = idx
                /\ last' = [ op |-> "call", raised |-> TRUE, args |-> a ]
    /\ UNCHANGED << publications, known_authors_defined, cache_dir, cache_files,
                    now, cache_expiry_days, config_max_retries, snapshot, written, arg, ret >>

\* the `continue` of the skip check
Skipped ==
    /\ last' = [ op |-> "label", index |-> idx, skipped |-> TRUE,
                 requests |-> 0, reads |-> 0, writes |-> 0 ]
    /\ UNCHANGED << publications, cache_dir, cache_files, written >>

\* the rest of the loop body, r being what LabelPublication gives
Labelled(r, net, save_outcome) ==
    /\ publications' = [ publications EXCEPT ![idx] = r.pub ]
    /\ cache_dir' = r.dir
    /\ cache_files' = r.files
    /\ last' = [ op |-> "label", index |-> idx, skipped |-> FALSE,
                 content |-> r.content,
                 payment |-> r.class.payment,
                 url_keywords |-> r.class.url_keywords,
                 scores |-> r.class.scores,
                 threshold_labels |-> r.class.threshold_labels,
                 fallback_ran |-> r.class.fallback_ran,
                 fallback_labels |-> r.class.fallback_labels,
                 requests |-> r.requests, reads |-> r.reads,
                 writes |-> r.writes,
                 \* what the last request made was answered
                 answer |-> IF r.requests = 0 THEN None ELSE net[r.requests],
                 save_outcome |-> IF r.writes > 0 THEN save_outcome ELSE "none",
                 save_raised |-> r.save_raised ]
    /\ written' =
         IF r.writes = 0 THEN written
         ELSE [ written EXCEPT ![r.pub.link] =
                  IF save_outcome = "ok"
                  THEN [ metadata |-> r.files[CacheFile(r.pub.link)].metadata,
                         time |-> now ]
                  ELSE None ]

\* one iteration of the for loop
LabelStep(net, save_outcome) ==
    /\ pc = "loop"
    /\ idx <= Len(publications)
    /\ IF SkipCheck(publications[idx], args.skip_if_labeled)
       THEN Skipped
       ELSE Labelled(LabelPublication(publications[idx], args, net,
                                      save_outcome, cache_dir, cache_files, now),
                     net, save_outcome)
    /\ idx' = idx + 1
    /\ UNCHANGED << known_authors_defined, now, cache_expiry_days, config_max_retries, pc, args,
                    runs, snapshot, arg, ret >>

\* whether the iteration on pub asks for its page
Fetches(pub) ==
    /\ ~SkipCheck(pub, args.skip_if_labeled)
    /\ args.analyze_content
    /\ Get(pub, "link", << >>) # << >>

\* the network's answers an iteration on pub may get; one choice stands for
\* all when the iteration makes no request
NetChoices(pub) ==
    IF Fetches(pub) THEN NetScriptsFor(pub.link) ELSE { << Failure >> }

\* what the file system may let its save do; one choice stands for all when
\* no page is answered, so that nothing is saved
SaveChoices(pub, net) ==
    IF Fetches(pub) /\ \E k \in DOMAIN net : net[k] = Web[pub.link]
    THEN SaveOutcomesIn(cache_dir)
    ELSE { "ok" }

\* an iteration in some environment
Label ==
    /\ pc = "loop"
    /\ idx <= Len(publications)
    /\ \E net \in NetChoices(publications[idx]) :
           \E save_outcome \in SaveChoices(publications[idx], net) :
               LabelStep(net, save_outcome)

\* return publications
Return ==
    /\ pc = "loop"
    /\ idx > Len(publications)
    /\ pc' = "idle"
    /\ args' = None
    /\ snapshot' = [ returned |-> TRUE, publications |-> publications ]
    /\ last' = [ op |-> "return", raised |-> FALSE, args |-> args ]
    /\ UNCHANGED << publications, known_authors_defined, cache_dir, cache_files,
                    now, cache_expiry_days, config_max_retries, idx, runs, written, arg, ret >>

\* time passes between two calls: long enough for every entry to expire
LongWait ==
    /\ pc = "idle"
    /\ runs >= 1
    /\ runs < MaxRuns
    /\ now + Days(CACHE_EXPIRY_DAYS) + 1 <= Days(CACHE_EXPIRY_DAYS + 1)
    /\ now' = now + Days(CACHE_EXPIRY_DAYS) + 1
    /\ last' = [ op |-> "wait" ]
    /\ UNCHANGED << publications, known_authors_defined, cache_dir, cache_files,
                    cache_expiry_days, config_max_retries, pc, args, idx, runs, snapshot, written,
                    arg, ret >>

\* time passes between two calls: exactly the expiry window
WindowWait ==
    /\ pc = "idle"
    /\ runs >= 1
    /\ runs < MaxRuns
    /\ now + Days(CACHE_EXPIRY_DAYS) <= Days(CACHE_EXPIRY_DAYS + 1)
    /\ now' = now + Days(CACHE_EXPIRY_DAYS)
    /\ last' = [ op |-> "wait" ]
    /\ UNCHANGED << publications, known_authors_defined, cache_dir, cache_files,
                    cache_expiry_days, config_max_retries, pc, args, idx, runs, snapshot, written,
                    arg, ret >>

\* the include and exclude lists main may be run with
FilterChoices ==
    { [ include_labels |-> << <<"t","e","c","h">>, <<"f","r","e","e">> >>, exclude_labels |-> << >> ],
      [ include_labels |-> << >>, exclude_labels |-> << <<"f","r","e","e">>, <<"w","r","i","t","i","n","g">> >> ],
      [ include_labels |-> << <<"t","e","c","h">>, <<"p","a","i","d">> >>, exclude_labels |-> << <<"p","a","i","d">> >> ] }

\* main's filter_labels(publications, include, exclude) on what the last
\* auto_label_publications returned; nothing is labelled after it
Filter(choice) ==
    /\ pc = "idle"
    /\ last.op = "return"
    /\ pc' = "filtered"
    /\ publications' = filter_labels(publications, choice.include_labels,
                                     choice.exclude_labels)
    /\ last' = [ op |-> "filter", choice |-> choice ]
    /\ UNCHANGED << known_authors_defined, cache_dir, cache_files, now,
                    cache_expiry_days, config_max_retries, args, idx, runs, snapshot, written, arg,
                    ret >>

Next ==
    \/ \E ac \in BOOLEAN, sl \in BOOLEAN, uc \in BOOLEAN : StartRun(ac, sl, uc)
    \/ Label
    \/ Return
    \/ LongWait
    \/ WindowWait
    \/ \E choice \in FilterChoices : Filter(choice)

Spec == Init /\ [][Next]_vars

(***************************************************************************)
(* The cache API as a process: get_cached_metadata, save_cached_metadata   *)
(* and clear_cache called in any order while time passes                   *)
(***************************************************************************)

\* the URLs and metadata values the calls are made with
CacheUrls == { Link1, Link2 }
CacheMetadata == { PageMetadata(Web[u]) : u \in CacheUrls }

\* the clock stops one day after the window of an entry written at time 0
LastInstant == Days(CACHE_EXPIRY_DAYS + 1)

InitCache ==
    /\ Boot
    /\ config_max_retries = DEFAULT_MAX_RETRIES
    /\ publications = << >>
    /\ known_authors_defined = TRUE
    /\ arg = None

\* get_cached_metadata(url)
CacheGet(url) ==
    /\ LET r == get_cached_metadata(url, cache_dir, cache_files, now)
       IN  last' = [ op |-> "get", url |-> url, raised |-> r.raised,
                     value |-> r.value ]
    /\ UNCHANGED << publications, known_authors_defined, cache_dir, cache_files,
                    now, cache_expiry_days, config_max_retries, pc, args, idx, runs, snapshot,
                    written, arg, ret >>

\* save_cached_metadata(url, metadata)
CacheSave(url, metadata, outcome) ==
    /\ outcome \in SaveOutcomesIn(cache_dir)
    /\ LET r == save_cached_metadata(url, metadata, outcome, cache_dir,
                                     cache_files, now)
       IN  /\ cache_dir' = r.dir
           /\ cache_files' = r.files
           /\ last' = [ op |-> "save", url |-> url, outcome |-> outcome,
                        raised |-> r.raised, dir_before |-> cache_dir ]
    /\ written' = [ written EXCEPT ![url] =
                      IF outcome = "ok"
                      THEN [ metadata |-> metadata, time |-> now ]
                      ELSE None ]
    /\ UNCHANGED << publications, known_authors_defined, now, cache_expiry_days, config_max_retries,
                    pc, args, idx, runs, snapshot, arg, ret >>

\* clear_cache()
CacheClear(rmtree_ok) ==
    /\ LET r == clear_cache(rmtree_ok, cache_dir, cache_files)
       IN  /\ cache_dir' = r.dir
           /\ cache_files' = r.files
           /\ last' = [ op |-> "clear", raised |-> r.raised, value |-> r.value,
                        dir_before |-> cache_dir,
                        entries_before |->
                            { u \in Links : cache_files[CacheFile(u)] # NoFile } ]
    /\ written' = [ u \in Links |-> None ]
    /\ UNCHANGED << publications, known_authors_defined, now, cache_expiry_days, config_max_retries,
                    pc, args, idx, runs, snapshot, arg, ret >>

\* the clock advances
Tick ==
    /\ now < LastInstant
    /\ now' = now + 1
    /\ last' = [ op |-> "tick" ]
    /\ UNCHANGED << publications, known_authors_defined, cache_dir, cache_files,
                    cache_expiry_days, config_max_retries, pc, args, idx, runs, snapshot, written,
                    arg, ret >>

\* Config.cache_expiry_days = days
SetCacheExpiryDays(days) ==
    /\ cache_expiry_days # days
    /\ cache_expiry_days' = days
    /\ last' = [ op |-> "config" ]
    /\ UNCHANGED << publications, known_authors_defined, cache_dir, cache_files,
                    now, config_max_retries, pc, args, idx, runs, snapshot, written, arg, ret >>

NextCache ==
    \/ \E url \in CacheUrls : CacheGet(url)
    \/ \E url \in CacheUrls, metadata \in CacheMetadata, outcome \in SaveOutcomes :
           CacheSave(url, metadata, outcome)
    \/ \E rmtree_ok \in BOOLEAN : CacheClear(rmtree_ok)
    \/ Tick
    \/ \E days \in { 0, DEFAULT_CACHE_EXPIRY_DAYS } : SetCacheExpiryDays(days)

SpecCache == InitCache /\ [][NextCache]_vars


(***************************************************************************)
(* calculate_category_score as a function: one call on each input          *)
(***************************************************************************)

\* keyword lists: one keyword, several, a phrase, a keyword listed twice
ScoreKeywordLists ==
    { << <<"a","i">> >>,
      << <<"t","e","c","h">>, <<"a","i">> >>,
      << <<"m","a","c","h","i","n","e"," ","l","e","a","r","n","i","n","g">>, <<"a","i">>, <<"a","i">> >>,
      << >> }

\* text_sources dicts: every source either without a match or with one, and
\* dicts that lack keys
ScoreTextSources ==
    { [ name |-> n, author |-> a, url_keywords |-> u, content |-> c,
        author_bio |-> b ] :
        n \in { <<"S","a","i","d"," ","S","o">>, <<"A","I"," ","N","o","t","e","s">>, <<"A","I"," ","s","t","a","r","t","u","p">> },
        a \in { <<"A","n","n">>, <<"T","e","c","h"," ","A","i">> },
        u \in { << <<"m","b","o","x">>, <<"p">> >>, << <<"t","e","c","h">>, <<"a","i">> >> },
        c \in { << >>, <<"m","a","c","h","i","n","e"," "," ","l","e","a","r","n","i","n","g"," ","a","n","d"," ","a","i">> },
        b \in { << >>, <<"a","i"," ","r","e","s","e","a","r","c","h">> } }
    \cup { [ name |-> <<"A","I"," ","N","o","t","e","s">> ], [ content |-> <<"a","i"," ","t","o","d","a","y">> ],
           [ x \in { } |-> << >> ] }

ScoreInputs ==
    { [ category |-> <<"t","e","c","h">>, keywords |-> k, text_sources |-> t ] :
        k \in ScoreKeywordLists, t \in ScoreTextSources }

InitScore ==
    /\ Boot
    /\ config_max_retries = DEFAULT_MAX_RETRIES
    /\ publications = << >>
    /\ known_authors_defined = TRUE
    /\ arg \in ScoreInputs

\* score, evidence = calculate_category_score(category, keywords, text_sources)
CallScore ==
    /\ ret = None
    /\ ret' = calculate_category_score(arg.category, arg.keywords,
                                       arg.text_sources)
    /\ last' = [ op |-> "score" ]
    /\ UNCHANGED << publications, known_authors_defined, cache_dir, cache_files,
                    now, cache_expiry_days, config_max_retries, pc, args, idx, runs, snapshot,
                    written, arg >>

NextScore == CallScore

SpecScore == InitScore /\ [][NextScore]_vars


(***************************************************************************)
(* validation.py: calculate_similarity, find_duplicates                    *)
(***************************************************************************)

\* difflib's find_longest_match on whole strings (no junk: autojunk starts
\* at 200 characters): the longest block a[i..i+k-1] = b[j..j+k-1], of
\* those the one starting earliest in a, of those the one starting earliest
\* in b; k = 0 when no character is shared
LongestMatch(a, b) ==
    LET blocks == { m \in (1..Len(a)) \X (1..Len(b)) \X (1..Len(a)) :
                      /\ m[1] + m[3] - 1 <= Len(a)
                      /\ m[2] + m[3] - 1 <= Len(b)
                      /\ SubSeq(a, m[1], m[1] + m[3] - 1)
                            = SubSeq(b, m[2], m[2] + m[3] - 1) }
    IN  IF blocks = { } THEN << 1, 1, 0 >>
        ELSE CHOOSE m \in blocks :
                 \A o \in blocks :
                     \/ o[3] < m[3]
                     \/ o[3] = m[3] /\ m[1] < o[1]
                     \/ o[3] = m[3] /\ m[1] = o[1] /\ m[2] <= o[2]

\* the sum of the sizes of get_matching_blocks(): the longest match, then
\* the same to its left and to its right
RECURSIVE MatchingChars(_, _)
MatchingChars(a, b) ==
    IF a = << >> \/ b = << >> THEN 0
    ELSE LET m == LongestMatch(a, b)
         IN  IF m[3] = 0 THEN 0
             ELSE m[3]
                  + MatchingChars(SubSeq(a, 1, m[1] - 1), SubSeq(b, 1, m[2] - 1))
                  + MatchingChars(SubSeq(a, m[1] + m[3], Len(a)),
                                  SubSeq(b, m[2] + m[3], Len(b)))

\* SequenceMatcher(None, s1, s2).ratio() as the fraction << num, den >>:
\* 2.0 * matches / (len(s1) + len(s2)), and 1.0 for two empty strings
Ratio(s1, s2) ==
    IF Len(s1) + Len(s2) = 0 THEN << 1, 1 >>
    ELSE << 2 * MatchingChars(s1, s2), Len(s1) + Len(s2) >>

\* a ratio in 0.0 .. 1.0, as a fraction; a missing name is None in the code
\* and '' here, both falsy
calculate_similarity(str1, str2) ==
    IF str1 = << >> \/ str2 = << >> THEN << 0, 1 >>
    ELSE Ratio(Strip(Lower(str1), {" "}), Strip(Lower(str2), {" "}))

\* x >= y on fractions with positive denominators
FractionGe(x, y) == x[1] * y[2] >= y[1] * x[2]

\* pub1.get("link") == pub2.get("link") and pub1.get("link") is not None
SameUrl(pub1, pub2) ==
    /\ "link" \in DOMAIN pub1
    /\ "link" \in DOMAIN pub2
    /\ pub1.link = pub2.link

\* the body of the inner loop, name_similarity being computed
CheckPair(duplicates, i, j, name_similarity, pub1, pub2, similarity_threshold) ==
    IF FractionGe(name_similarity, similarity_threshold) \/ SameUrl(pub1, pub2)
    THEN Append(duplicates, [ i |-> i, j |-> j, score |-> name_similarity,
                              pub1 |-> pub1, pub2 |-> pub2 ])
    ELSE duplicates

\* the two nested loops from (i, j) on; indices count from 0 as in the code
RECURSIVE FindFrom(_, _, _, _, _)
FindFrom(pubs, similarity_threshold, i, j, duplicates) ==
    IF i >= Len(pubs) THEN duplicates
    ELSE IF j >= Len(pubs)
         THEN FindFrom(pubs, similarity_threshold, i + 1, i + 2, duplicates)
         ELSE FindFrom(pubs, similarity_threshold, i, j + 1,
                       CheckPair(duplicates, i, j,
                                 calculate_similarity(
                                     Get(pubs[i + 1], "name", << >>),
                                     Get(pubs[j + 1], "name", << >>)),
                                 pubs[i + 1], pubs[j + 1], similarity_threshold))

find_duplicates(pubs, similarity_threshold) ==
    FindFrom(pubs, similarity_threshold, 0, 1, << >>)

(***************************************************************************)
(* The post-processing functions as a process: one call on drawn arguments *)
(***************************************************************************)

\* arguments of filter_labels: publications that are labelled, have an
\* empty label list or no label list, and include and exclude lists
FilterInputs ==
    LET pool == { [ name |-> <<"T","e","c","h"," ","N","o","t","e","s">>, labels |-> << "tech", "news", "paid" >> ],
                  [ name |-> <<"D","a","i","l","y">>, labels |-> << "news", "free", "news" >> ],
                  [ name |-> <<"E","m","p","t","y">>, labels |-> << >> ],
                  [ name |-> <<"B","a","r","e">> ] }
        lists == { << >>, << "tech", "news" >>, << "news" >>,
                   << "paid", "free" >>, << "art" >> }
    IN  { [ fn |-> "filter_labels", publications |-> pubs,
            include_labels |-> inc, exclude_labels |-> exc ] :
            pubs \in { << >> } \cup { << p >> : p \in pool }
                     \cup { << p, q >> : p \in pool, q \in pool },
            inc \in lists, exc \in lists }

\* the default threshold 0.85, as a fraction
DEFAULT_SIMILARITY_THRESHOLD == << 17, 20 >>

\* arguments of find_duplicates: names that are equal once normalised,
\* close, at exactly the threshold 1/2, unlike, empty or missing; links that
\* are equal, different, empty or missing
DuplicateInputs ==
    LET pool == { [ name |-> <<"T","e","c","h"," ","N","o","t","e","s">>, link |-> Link1 ],
                  [ name |-> <<" ","t","e","c","h"," ","n","o","t","e","s">>, link |-> Link2 ],
                  [ name |-> <<"T","e","c","h"," ","N","o","t","e">>, link |-> Link3 ],
                  [ name |-> <<"M","u","s","i","c"," ","B","o","x">>, link |-> Link1 ],
                  [ name |-> <<"a","b">>, link |-> << >> ],
                  [ name |-> <<"a","c">>, link |-> << >> ],
                  [ name |-> <<"d","c">> ],
                  [ link |-> Link2 ],
                  [ name |-> << >> ] }
        few == { p \in pool : Len(Get(p, "name", << >>)) = 2 }
               \cup { [ name |-> <<"T","e","c","h"," ","N","o","t","e","s">>, link |-> Link1 ] }
    IN  { [ fn |-> "find_duplicates", publications |-> pubs,
            similarity_threshold |-> thr ] :
            pubs \in { << >> } \cup { << p >> : p \in few }
                     \cup { << p, q >> : p \in pool, q \in pool }
                     \cup { << p, q, r >> : p \in few, q \in few, r \in few },
            thr \in { DEFAULT_SIMILARITY_THRESHOLD, << 1, 2 >> } }

\* arguments of extract_url_keywords: the empty URL, URLs of spaces, URLs
\* with and without path, without scheme, with spaces around
UrlInputs ==
    { [ fn |-> "extract_url_keywords", url |-> u ] :
        u \in { << >>, <<" ">>, <<" "," "," ">>, Link1, Link2, Link3,
                <<"h","t","t","p","s",":","/","/","b","l","o","g",".","e","x","a","m","p","l","e",".","c","o","m">>, <<"b","o","b",".","s","u","b","s","t","a","c","k",".","c","o","m","/","c","o","d","e">>,
                <<" ","h","t","t","p","s",":","/","/","a",".","c","o","m","/","x"," ">> } }

\* publications for one iteration of the labelling loop: one site for each
\* token of the URL tables of the fallback block, and names that meet the
\* name rules of the fallback block one by one and together
ClassifyInputs ==
    LET Site(token) == <<"h","t","t","p","s",":","/","/">> \o token \o <<".","s","u","b","s","t","a","c","k",".","c","o","m","/">>
        Tokens == { <<"t","e","c","h">>, <<"c","o","d","e">>, <<"d","e","v">>, <<"e","n","g","i","n","e","e","r","i","n","g">>,
                    <<"n","e","w","s">>, <<"d","a","i","l","y">>, <<"w","e","e","k","l","y">>, <<"n","e","w","s","l","e","t","t","e","r">>,
                    <<"m","u","s","i","c">>, <<"b","a","n","d">>, <<"a","l","b","u","m">>,
                    <<"o","b","j","e","c","t","i","o","n">>, <<"l","e","g","a","l">>, <<"l","a","w","y","e","r">> }
        Names == { <<"B","o","'","s"," ","Q","u","x">>, <<"R","u","b","y"," ","Q","u","x">>, <<"B","o","'","s"," ","B","a","n","d">>, <<"B","o","'","s"," ","L","e","g","a","l"," ","Q","u","x">>,
                   <<"A","n","n","'","s"," ","B","a","n","d">>, <<"Q","u","x"," ","Z","a","p">>, <<"T","h","e"," ","Q","u","x"," ","o","f"," ","B","o","'","s">> }
    IN  { [ fn |-> "classify", content |-> << >>,
            pub |-> [ name |-> <<"Q","u","x">>, author |-> <<"Z","e","d">>, link |-> Site(t) ] ] :
            t \in Tokens }
        \cup
        { [ fn |-> "classify", content |-> << >>,
            pub |-> [ name |-> n, author |-> <<"A","n","n">>, link |-> << >> ] ] :
            n \in Names }
        \cup
        { [ fn |-> "classify", content |-> << >>,
            pub |-> [ name |-> <<"B","o","'","s"," ","Q","u","x">>, author |-> <<"A","n","n">>,
                      link |-> Site(<<"a","l","b","u","m">>), is_paid |-> TRUE ] ],
          [ fn |-> "classify", content |-> << >>,
            pub |-> [ name |-> <<"Q","u","x">>, link |-> Site(<<"l","a","w","y","e","r">>) ] ],
          [ fn |-> "classify", content |-> <<"d","a","i","l","y"," ","n","e","w","s">>,
            pub |-> [ name |-> <<"Q","u","x">>, author |-> <<"Z","e","d">>, link |-> Site(<<"c","o","d","e">>) ] ] }

\* the largest max_retries passed to extract_metadata, and the number of
\* calls made one after the other on the same cache
MaxRetriesArgument == 3
ExtractCalls == 2

\* extract_metadata(url, max_retries, use_cache=use_cache)
ExtractInputs ==
    { [ fn |-> "extract_metadata", url |-> url, use_cache |-> use_cache ] :
        url \in CacheUrls, use_cache \in BOOLEAN }

(***************************************************************************)
(* scraper.py and downloads.py: the icons of scrape_substack_reads         *)
(***************************************************************************)

\* the largest number of rows on the reads page
MaxRows == 3

\* download_image(url, folder, filename, True): (file_path, was_cached), with
\* << >> for the None of a failed download
download_image(task) ==
    IF task.ok
    THEN [ file_path |-> << task.folder, task.filename >>, was_cached |-> FALSE ]
    ELSE [ file_path |-> << >>, was_cached |-> FALSE ]

\* results[index] for index, task in enumerate(image_tasks): the threads finish
\* in any order and each stores under the index of its own task
download_images_parallel(image_tasks) ==
    [ index \in 0..(Len(image_tasks) - 1) |->
        download_image(image_tasks[index + 1]) ]

\* the publications scrape_substack_reads returns for the rows of the page;
\* a row is [name, link, image, ok]: its name, whether it has an href and an
\* img src, and whether its image can be downloaded
scrape_substack_reads(rows, download_images, parallel_downloads) ==
    LET Task(row) == [ url |-> << "src", row.name >>, folder |-> "images",
                       filename |-> row.name, ok |-> row.ok ]
        HasTask(row) == row.image /\ download_images /\ row.name # ""
        PubData(row) ==
            IF HasTask(row)
            THEN [ name |-> row.name, link |-> row.link, is_paid |-> FALSE,
                   _image_task |-> Task(row) ]
            ELSE [ name |-> row.name, link |-> row.link, is_paid |-> FALSE ]
        Kept(row) == row.name # "" /\ row.link
        \* first pass
        kept_rows == SelectSeq(rows, Kept)
        publications0 == [ i \in DOMAIN kept_rows |-> PubData(kept_rows[i]) ]
        task_rows == SelectSeq(rows, HasTask)
        image_tasks == [ i \in DOMAIN task_rows |-> Task(task_rows[i]) ]
        \* pub["icon"] = os.path.abspath(file_path); del pub["_image_task"]
        Done(pub, result) ==
            IF result.file_path # << >>
            THEN [ name |-> pub.name, link |-> pub.link, is_paid |-> pub.is_paid,
                   icon |-> result.file_path ]
            ELSE [ name |-> pub.name, link |-> pub.link, is_paid |-> pub.is_paid ]
        NoResult == [ file_path |-> << >>, was_cached |-> FALSE ]
        image_results == download_images_parallel(image_tasks)
        Parallel ==
            [ i \in DOMAIN publications0 |->
                IF "_image_task" \in DOMAIN publications0[i]
                THEN IF ( i - 1 ) \in DOMAIN image_results
                     THEN Done(publications0[i], image_results[i - 1])
                     ELSE Done(publications0[i], NoResult)
                ELSE publications0[i] ]
        Sequential ==
            [ i \in DOMAIN publications0 |->
                IF "_image_task" \in DOMAIN publications0[i]
                THEN Done(publications0[i],
                          download_image(publications0[i]._image_task))
                ELSE publications0[i] ]
    IN  IF download_images /\ image_tasks # << >>
        THEN IF parallel_downloads /\ Len(image_tasks) > 1
             THEN Parallel
             ELSE Sequential
        ELSE publications0

\* pages of 1..MaxRows rows, each a publication with an icon that downloads
\* or fails, a publication without an icon, or a row without href (dropped)
\* with or without an icon
ScrapeInputs ==
    LET Names == << "A", "B", "C", "D", "E" >>
        Kinds == { [ link |-> TRUE, image |-> TRUE, ok |-> TRUE ],
                   [ link |-> TRUE, image |-> TRUE, ok |-> FALSE ],
                   [ link |-> TRUE, image |-> FALSE, ok |-> FALSE ],
                   [ link |-> FALSE, image |-> TRUE, ok |-> TRUE ],
                   [ link |-> FALSE, image |-> FALSE, ok |-> FALSE ] }
        Pages(n) == { [ i \in 1..n |-> [ name |-> Names[i], link |-> k[i].link,
                                         image |-> k[i].image, ok |-> k[i].ok ] ] :
                        k \in [ 1..n -> Kinds ] }
    IN  { [ fn |-> "scrape_substack_reads", rows |-> rows,
            download_images |-> d, parallel_downloads |-> p ] :
            rows \in UNION { Pages(n) : n \in 1..MaxRows }, d, p \in BOOLEAN }

ToolInputs ==
    FilterInputs \cup DuplicateInputs \cup UrlInputs \cup ClassifyInputs
    \cup ExtractInputs \cup ScrapeInputs

InitTools ==
    /\ Boot
    /\ config_max_retries = DEFAULT_MAX_RETRIES
    /\ publications = << >>
    /\ known_authors_defined = TRUE
    /\ arg \in ToolInputs

\* publications = filter_labels(publications, include, exclude)
CallFilterLabels ==
    /\ ret = None
    /\ arg.fn = "filter_labels"
    /\ ret' = [ value |-> filter_labels(arg.publications, arg.include_labels,
                                        arg.exclude_labels) ]
    /\ last' = [ op |-> "filter_labels" ]
    /\ UNCHANGED << publications, known_authors_defined, cache_dir, cache_files,
                    now, cache_expiry_days, config_max_retries, pc, args, idx, runs, snapshot,
                    written, arg >>

\* duplicates = find_duplicates(publications, similarity_threshold)
CallFindDuplicates ==
    /\ ret = None
    /\ arg.fn = "find_duplicates"
    /\ ret' = [ value |-> find_duplicates(arg.publications,
                                          arg.similarity_threshold) ]
    /\ last' = [ op |-> "find_duplicates" ]
    /\ UNCHANGED << publications, known_authors_defined, cache_dir, cache_files,
                    now, cache_expiry_days, config_max_retries, pc, args, idx, runs, snapshot,
                    written, arg >>

\* keywords = extract_url_keywords(url)
CallExtractUrlKeywords ==
    /\ ret = None
    /\ arg.fn = "extract_url_keywords"
    /\ ret' = [ value |-> extract_url_keywords(arg.url) ]
    /\ last' = [ op |-> "extract_url_keywords" ]
    /\ UNCHANGED << publications, known_authors_defined, cache_dir, cache_files,
                    now, cache_expiry_days, config_max_retries, pc, args, idx, runs, snapshot,
                    written, arg >>

\* one iteration of the for loop of auto_label_publications on arg.pub,
\* with arg.content as the text the content analysis gave
CallClassify ==
    /\ ret = None
    /\ arg.fn = "classify"
    /\ ret' = [ value |-> Classify(arg.pub, arg.content) ]
    /\ last' = [ op |-> "classify" ]
    /\ UNCHANGED << publications, known_authors_defined, cache_dir, cache_files,
                    now, cache_expiry_days, config_max_retries, pc, args, idx, runs, snapshot,
                    written, arg >>

\* metadata = extract_metadata(arg.url, max_retries, use_cache=arg.use_cache);
\* net[k] is the answer the k-th request would get
ExtractMetadata(max_retries, net, save_outcome) ==
    /\ save_outcome \in SaveOutcomesIn(cache_dir)
    /\ runs' = runs + 1
    /\ LET r == extract_metadata(arg.url, max_retries, arg.use_cache, net,
                                 save_outcome, cache_dir, cache_files, now)
       IN  /\ ret' = [ value |-> r.metadata ]
           /\ cache_dir' = r.dir
           /\ cache_files' = r.files
           /\ last' = [ op |-> "extract_metadata", max_retries |-> max_retries,
                        net |-> net, requests |-> r.requests,
                        cached |-> IF arg.use_cache
                                   THEN get_cached_metadata(arg.url, cache_dir,
                                                            cache_files, now).value
                                   ELSE None ]
    /\ UNCHANGED << publications, known_authors_defined, now, cache_expiry_days,
                    config_max_retries, pc, args, idx, snapshot, written, arg >>

\* publications = scrape_substack_reads(url, download_images=..., parallel_downloads=...)
CallScrape ==
    /\ ret = None
    /\ arg.fn = "scrape_substack_reads"
    /\ ret' = [ value |-> scrape_substack_reads(arg.rows, arg.download_images,
                                                arg.parallel_downloads) ]
    /\ last' = [ op |-> "scrape_substack_reads" ]
    /\ UNCHANGED << publications, known_authors_defined, cache_dir, cache_files,
                    now, cache_expiry_days, config_max_retries, pc, args, idx, runs, snapshot,
                    written, arg >>

CallExtractMetadata ==
    /\ arg.fn = "extract_metadata"
    /\ runs < ExtractCalls
    /\ \E max_retries \in 0..MaxRetriesArgument :
           \E net \in [ 1..max_retries -> { Timeout, Failure, Web[arg.url] } ],
              save_outcome \in SaveOutcomes :
               ExtractMetadata(max_retries, net, save_outcome)

NextTools ==
    \/ CallFilterLabels
    \/ CallFindDuplicates
    \/ CallExtractUrlKeywords
    \/ CallClassify
    \/ CallExtractMetadata
    \/ CallScrape

SpecTools == InitTools /\ [][NextTools]_vars


(***************************************************************************)
(* save_cached_metadata called by several processes at once, with readers  *)
(***************************************************************************)

\* A file is NoFile or [slots |-> the pieces it holds].  pickle.dump hands
\* the pickle to the file in one write when it is small; a pickle holding a
\* string of 64 KiB or more is handed over in several writes (the frame
\* with timestamp, url and the short fields, then the long string).  Two
\* pieces stand for that: the head and the content.
Writers == { 1, 2 }

\* the pieces writer w's pickle.dump(cached_data, f) writes
Pieces(a, t) ==
    << [ part |-> 1, timestamp |-> t, url |-> a.url,
         description |-> a.metadata.description ],
       [ part |-> 2, content_text |-> a.metadata.content_text ] >>

\* a write of piece k at offset k of a file opened "wb": over what is
\* there, at the end, or past the end of a file another open has truncated
\* (the gap reads as zero bytes)
WriteAt(slots, k, piece) ==
    IF Len(slots) >= k THEN [ slots EXCEPT ![k] = piece ]
    ELSE IF Len(slots) = k - 1 THEN Append(slots, piece)
    ELSE << [ part |-> 0 ], piece >>

\* what pickle.load makes of the files: an empty or cut-off file and one
\* beginning with zero bytes are unreadable, and a head followed by a
\* content is an entry, whoever wrote the two
Unpickled(files) ==
    [ f \in DOMAIN files |->
        IF files[f] = NoFile THEN NoFile
        ELSE IF Len(files[f].slots) < 2 \/ files[f].slots[1].part # 1 THEN Corrupt
        ELSE [ timestamp |-> files[f].slots[1].timestamp,
               url |-> files[f].slots[1].url,
               metadata |-> [ description |-> files[f].slots[1].description,
                              content_text |-> files[f].slots[2].content_text ] ] ]

\* each writer saves some metadata for some URL; large tells whether its
\* pickle is written in two writes
InitRace ==
    /\ publications = << >>
    /\ known_authors_defined = TRUE
    /\ cache_dir = FALSE
    /\ cache_files = [ f \in { CacheFile(u) : u \in Links } |-> NoFile ]
    /\ now = 0
    /\ cache_expiry_days = DEFAULT_CACHE_EXPIRY_DAYS
    /\ config_max_retries = DEFAULT_MAX_RETRIES
    /\ pc = [ w \in Writers |-> "start" ]
    /\ args \in [ Writers -> [ url : CacheUrls, metadata : CacheMetadata,
                               large : BOOLEAN ] ]
    /\ idx = 0
    /\ runs = 0
    /\ last = [ op |-> "init" ]
    /\ snapshot = [ returned |-> FALSE ]
    /\ written = [ u \in Links |-> None ]
    /\ arg = None
    /\ ret = None

\* os.makedirs(cache_dir, exist_ok=True)
RaceMakedirs(w) ==
    /\ pc[w] = "start"
    /\ cache_dir' = TRUE
    /\ pc' = [ pc EXCEPT ![w] = "made" ]
    /\ last' = [ op |-> "makedirs", writer |-> w ]
    /\ UNCHANGED << publications, known_authors_defined, cache_files, now,
                    cache_expiry_days, config_max_retries, args, idx, runs, snapshot, written, arg,
                    ret >>

\* open(cache_file, "wb"): the file is created, or cut to nothing
RaceOpen(w) ==
    /\ pc[w] = "made"
    /\ cache_files' = [ cache_files EXCEPT ![CacheFile(args[w].url)] =
                          [ slots |-> << >> ] ]
    /\ pc' = [ pc EXCEPT ![w] = "opened" ]
    /\ last' = [ op |-> "open", writer |-> w ]
    /\ UNCHANGED << publications, known_authors_defined, cache_dir, now,
                    cache_expiry_days, config_max_retries, args, idx, runs, snapshot, written, arg,
                    ret >>

\* one write of pickle.dump(cached_data, f), the last one with the close:
\* the whole pickle, or the next of its two pieces
RaceWrite(w) ==
    /\ pc[w] \in { "opened", "half" }
    /\ LET f == CacheFile(args[w].url)
           pieces == Pieces(args[w], now)
           slots == cache_files[f].slots
       IN  cache_files' = [ cache_files EXCEPT ![f] =
               [ slots |->
                   IF pc[w] = "half" THEN WriteAt(slots, 2, pieces[2])
                   ELSE IF args[w].large THEN WriteAt(slots, 1, pieces[1])
                   ELSE WriteAt(WriteAt(slots, 1, pieces[1]), 2, pieces[2]) ] ]
    /\ pc' = [ pc EXCEPT ![w] = IF pc[w] = "opened" /\ args[w].large
                                THEN "half" ELSE "done" ]
    /\ last' = [ op |-> "write", writer |-> w ]
    /\ UNCHANGED << publications, known_authors_defined, cache_dir, now,
                    cache_expiry_days, config_max_retries, args, idx, runs, snapshot, written, arg,
                    ret >>

\* get_cached_metadata(url) by another process, at any moment
RaceGet(url) ==
    /\ LET r == get_cached_metadata(url, cache_dir, Unpickled(cache_files), now)
       IN  last' = [ op |-> "get", url |-> url, raised |-> r.raised,
                     value |-> r.value ]
    /\ UNCHANGED << publications, known_authors_defined, cache_dir, cache_files,
                    now, cache_expiry_days, config_max_retries, pc, args, idx, runs, snapshot,
                    written, arg, ret >>

NextRace ==
    \/ \E w \in Writers : RaceMakedirs(w)
    \/ \E w \in Writers : RaceOpen(w)
    \/ \E w \in Writers : RaceWrite(w)
    \/ \E url \in CacheUrls : RaceGet(url)

SpecRace == InitRace /\ [][NextRace]_vars


(***************************************************************************)
(* Properties of auto_label_publications (specification Spec)              *)
(***************************************************************************)

\* the latest step labelled a publication (did not skip it)
Processed == last.op = "label" /\ ~last.skipped

\* the publication the latest step of the loop was about, as it is now
LastPub == publications[last.index]

LabelsOf(pub) == Get(pub, "labels", << >>)

\* a call of auto_label_publications made on the output of an earlier call,
\* with skip_if_labeled=True: still in its loop, or just returned
SecondRunSkipping ==
    /\ snapshot.returned
    /\ \/ pc = "loop" /\ args.skip_if_labeled
       \/ pc = "idle" /\ last.op = "return" /\ last.args.skip_if_labeled

C2_ThresholdLabels ==
    Processed =>
        \A category \in Categories :
            LET score == last.scores[category]
                emitted == Range(last.threshold_labels)
            IN  /\ category \in emitted <=> score >= Points(BASE_THRESHOLD)
                /\ ( category \o <<"-","f","o","c","u","s","e","d">> ) \in emitted
                       <=> score >= Points(FOCUSED_THRESHOLD)
                /\ emitted \subseteq Range(LabelsOf(LastPub))

\* a publication scored exactly 1 in one category and 4.5 in another, and
\* has the two base labels and neither focused label; the publication
\* before it has a focused label
C2_Witness ==
    /\ Processed
    /\ last.index = 2
    /\ last.scores[<<"n","e","w","s">>] = Points(BASE_THRESHOLD)
    /\ last.scores[<<"c","u","l","t","u","r","e">>] = Points(FOCUSED_THRESHOLD) - 1
    /\ last.threshold_labels = << <<"n","e","w","s">>, <<"c","u","l","t","u","r","e">> >>
    /\ <<"t","e","c","h","-","f","o","c","u","s","e","d">> \in Range(LabelsOf(publications[1]))

\* C3: the fallback step runs exactly when the threshold step added nothing
\* to the payment label; a publication with a score >= 1 in some category
\* gets no fallback label.
C3_FallbackGating ==
    Processed =>
        /\ last.fallback_ran <=> last.threshold_labels = << >>
        /\ ( \E category \in Categories :
                 last.scores[category] >= Points(BASE_THRESHOLD) ) =>
               ( ~last.fallback_ran /\ last.fallback_labels = << >> )
        /\ ~last.fallback_ran => last.fallback_labels = << >>

\* a publication with one base label and no focused label went past the
\* fallback step
C3_Witness ==
    /\ Processed
    /\ Len(last.threshold_labels) = 1
    /\ ~last.fallback_ran
    /\ Len(LabelsOf(LastPub)) = 2

\* C5: a publication that was labelled has exactly one of `paid` and `free`:
\* `paid` when is_paid is true, `free` when it is false or missing; this holds
\* of every publication the loop of a run without skipping has gone through.
ExactlyOnePaymentLabel(pub) ==
    LET labels == Range(LabelsOf(pub))
    IN  /\ ( <<"p","a","i","d">> \in labels ) # ( <<"f","r","e","e">> \in labels )
        /\ <<"p","a","i","d">> \in labels <=> Get(pub, "is_paid", FALSE)

C5_PaymentLabel ==
    /\ Processed =>
           /\ ExactlyOnePaymentLabel(LastPub)
           /\ last.payment \in Range(LabelsOf(LastPub))
    /\ ( pc = "loop" /\ ~args.skip_if_labeled ) =>
           \A i \in 1..(idx - 1) : ExactlyOnePaymentLabel(publications[i])

\* a publication without is_paid was labelled `free`, after a paid one
C5_Witness ==
    /\ Processed
    /\ last.index = 2
    /\ ~args.skip_if_labeled
    /\ "is_paid" \notin DOMAIN LastPub
    /\ <<"f","r","e","e">> \in Range(LabelsOf(LastPub))
    /\ <<"p","a","i","d">> \in Range(LabelsOf(publications[1]))

\* C6: the labels of a publication that was labelled are in strictly
\* ascending order (so without duplicate) and are, as a set, the payment
\* label, the threshold labels and the fallback labels of that publication.
C6_SortedUnion ==
    Processed =>
        LET labels == LabelsOf(LastPub)
        IN  /\ \A i \in 1..(Len(labels) - 1) : StrLess(labels[i], labels[i + 1])
            /\ Range(labels) = { last.payment }
                                   \cup Range(last.threshold_labels)
                                   \cup Range(last.fallback_labels)

\* the fallback step added the same label twice, and another one
C6_Witness ==
    /\ Processed
    /\ \E i, j \in DOMAIN last.fallback_labels :
           i # j /\ last.fallback_labels[i] = last.fallback_labels[j]
    /\ Len(LabelsOf(LastPub)) = 3

\* C9: a save that fails (directory, open or serialisation) raises nothing,
\* and the iteration that made it completes: the publication is labelled
\* from the fetched text and the loop goes on with the next position.
C9_SaveNeverRaises ==
    ( Processed /\ last.writes > 0 ) =>
        /\ ~last.save_raised
        /\ pc = "loop"
        /\ idx = last.index + 1
        /\ last.content = Lower(Web[LastPub.link].text)
        /\ Len(LabelsOf(LastPub)) >= 1

\* a save failed while serialising, in the iteration of the first of two
\* publications
C9_Witness ==
    /\ Processed
    /\ last.save_outcome = "dump_fails"
    /\ last.index = 1
    /\ idx <= Len(publications)
    /\ cache_files[CacheFile(LastPub.link)] = Corrupt


(***************************************************************************)
(* Properties of calculate_category_score (specification SpecScore)        *)
(***************************************************************************)

ScoreSources == { "author_bio", "name", "url_keywords", "author", "content" }

\* the weight of a source, in halves of a point
SourceWeightHalves(source) ==
    CASE source = "author_bio" -> Points(WEIGHT_AUTHOR_BIO)
      [] source = "name" -> Points(WEIGHT_NAME)
      [] source = "url_keywords" -> Points(WEIGHT_URL)
      [] source = "author" -> Points(WEIGHT_AUTHOR)
      [] source = "content" -> WEIGHT_CONTENT_HALVES

\* the lowercased text of a source, the URL tokens joined by spaces
SourceText(text_sources, source) ==
    IF source = "url_keywords"
    THEN Lower(Join(Get(text_sources, source, << >>), <<" ">>))
    ELSE Lower(Get(text_sources, source, << >>))

\* the (keyword position, source) pairs that match
MatchingPairs(keywords, text_sources) ==
    { pair \in ( DOMAIN keywords ) \X ScoreSources :
        word_boundary_search(SourceText(text_sources, pair[2]),
                             Lower(keywords[pair[1]])) }

RECURSIVE SumOfWeights(_)
SumOfWeights(pairs) ==
    IF pairs = { } THEN 0
    ELSE LET pair == CHOOSE x \in pairs : TRUE
         IN  SourceWeightHalves(pair[2]) + SumOfWeights(pairs \ { pair })

\* C4: the score calculate_category_score returns is the sum of the weights
\* of the sources over all (keyword, source) pairs that match, with no cap
\* and no normalisation, and it returns one evidence string for each pair.
C4_ScoreIsSumOfWeights ==
    ret # None =>
        LET pairs == MatchingPairs(arg.keywords, arg.text_sources)
        IN  /\ ret.score = SumOfWeights(pairs)
            /\ Len(ret.matches) = Cardinality(pairs)

\* the keyword `ai` matched in the name and in the content and nowhere else:
\* 3 + 1.5 = 4.5 points and two evidence strings
C4_Witness ==
    /\ ret # None
    /\ arg.keywords = << <<"a","i">> >>
    /\ ret.matches = << <<"a","i"," ","i","n"," ","n","a","m","e">>, <<"a","i"," ","i","n"," ","c","o","n","t","e","n","t">> >>
    /\ ret.score = Points(WEIGHT_NAME) + WEIGHT_CONTENT_HALVES


(***************************************************************************)
(* Properties of the cache API (specification SpecCache)                   *)
(***************************************************************************)

\* the file of the URL the latest get was made for (a get changes nothing,
\* so the cache and the clock are still those the get saw)
GetFile == cache_files[CacheFile(last.url)]

\* an entry for that URL exists and is readable
GetFileReadable == cache_dir /\ GetFile # NoFile /\ GetFile # Corrupt

\* C7: get_cached_metadata never raises, and returns the stored value exactly
\* when the store and an entry for the URL exist, the entry is readable and
\* its age is at most the window CACHE_EXPIRY_DAYS (7 days); otherwise it
\* returns None.
C7_GetHitsIffValid ==
    last.op = "get" =>
        /\ ~last.raised
        /\ IF GetFileReadable
                /\ now - GetFile.timestamp <= Days(CACHE_EXPIRY_DAYS)
           THEN last.value = GetFile.metadata
           ELSE last.value = None

\* a get of an entry that is exactly 7 days old returned the stored value
C7_Witness ==
    /\ last.op = "get"
    /\ GetFileReadable
    /\ now - GetFile.timestamp = Days(DEFAULT_CACHE_EXPIRY_DAYS)
    /\ last.value = GetFile.metadata
    /\ last.value # None

\* C8: when Config.cache_expiry_days is 0, every get_cached_metadata returns
\* None, a get made at the instant of the write included.
C8_ZeroWindowAlwaysMisses ==
    ( cache_expiry_days = 0 /\ last.op = "get" ) => last.value = None

\* C10: while a successful save of (url, m) stands (no clear_cache and no
\* later save for url), the store exists and holds for url an entry whose
\* timestamp is the time of the save, and a get for url made while the age
\* of the entry is within the window returns m.
C10_RoundTrip ==
    /\ \A url \in Links :
           written[url] # None =>
               LET file == cache_files[CacheFile(url)]
               IN  /\ cache_dir
                   /\ file # NoFile
                   /\ file # Corrupt
                   /\ file.timestamp = written[url].time
    /\ ( /\ last.op = "get"
         /\ written[last.url] # None
         /\ now - written[last.url].time <= Days(CACHE_EXPIRY_DAYS) ) =>
           last.value = written[last.url].metadata

\* a get returned what was saved for its URL some days before, although a
\* different value was saved for the other URL since
C10_Witness ==
    /\ last.op = "get"
    /\ written[last.url] # None
    /\ now > written[last.url].time
    /\ last.value = written[last.url].metadata
    /\ \E other \in Links \ { last.url } :
           /\ written[other] # None
           /\ written[other].time > written[last.url].time
           /\ written[other].metadata # written[last.url].metadata

\* the store holds no entry for url
NoEntry(url, dir, files) == ~dir \/ files[CacheFile(url)] = NoFile

\* C11: a clear_cache that returns has returned True exactly when the store
\* existed before the call and leaves no store and no entry; from then on a
\* get for a URL returns None until a save for that URL, and a save made
\* when there is no store, which the file system lets through, makes the
\* store again and can be read back.
C11_ClearEmptiesStore ==
    [][
    /\ \* a clear that returns, returns whether the store existed, and leaves
       \* neither store nor entry
       ( last'.op = "clear" /\ ~last'.raised ) =>
           /\ last'.value = cache_dir
           /\ ~cache_dir'
           /\ \A f \in DOMAIN cache_files' : cache_files'[f] = NoFile
    /\ \* only a save for url ends the absence of an entry for url
       \A url \in Links :
           ( /\ NoEntry(url, cache_dir, cache_files)
             /\ ~NoEntry(url, cache_dir', cache_files') ) =>
               last'.op = "save" /\ last'.url = url
    /\ \* a get for a URL without entry returns None
       ( last'.op = "get" /\ NoEntry(last'.url, cache_dir', cache_files') ) =>
           ~last'.raised /\ last'.value = None
    /\ \* a save that finds no store and that the file system lets through
       \* makes the store again and is readable at once
       ( last'.op = "save" /\ ~cache_dir /\ last'.outcome = "ok" ) =>
           /\ ~last'.raised
           /\ cache_dir'
           /\ written'[last'.url] # None
           /\ get_cached_metadata(last'.url, cache_dir', cache_files', now').value
                  = written'[last'.url].metadata
    ]_vars

\* a clear found the store with entries for both URLs, returned True and
\* left neither store nor entry
C11_Witness ==
    /\ last.op = "clear"
    /\ ~last.raised
    /\ last.value = TRUE
    /\ last.entries_before = CacheUrls
    /\ \A url \in CacheUrls : NoEntry(url, cache_dir, cache_files)

(***************************************************************************)
(* Properties of content analysis and the cache (specification Spec)       *)
(***************************************************************************)

\* C12: in an iteration with analyze_content and use_cache on a publication
\* with a link, the cache is read first; a hit gives the cached text as
\* content without any request; a miss is followed by a request, and a page
\* it is answered is used (lower-cased) as content and saved once; where the
\* file system lets the save through, the entry holds the content just
\* scored, and a later iteration on the same link, made while that save
\* stands and is at most CACHE_EXPIRY_DAYS old, sends no request and has
\* the saved text as content.
C12_CacheThenFetch ==
    [][
    LET \* the publication the loop is at, and what get_cached_metadata
        \* would return for its link
        CurrentPub == publications[idx]
        CurrentCached ==
            get_cached_metadata(CurrentPub.link, cache_dir, cache_files, now).value
    IN
    ( /\ last'.op = "label"
      /\ ~last'.skipped
      /\ args.analyze_content
      /\ args.use_cache
      /\ Get(CurrentPub, "link", << >>) # << >> ) =>
        /\ last'.reads >= 1
        /\ IF Truthy(CurrentCached)
           THEN /\ last'.requests = 0
                /\ last'.writes = 0
                /\ last'.content = CurrentCached.content_text
           ELSE /\ last'.requests >= 1
                /\ ( last'.answer = Web[CurrentPub.link] ) =>
                       /\ last'.content = Lower(Web[CurrentPub.link].text)
                       /\ last'.writes = 1
                       /\ ( last'.save_outcome = "ok" ) =>
                              /\ written'[CurrentPub.link] # None
                              /\ written'[CurrentPub.link].metadata.content_text
                                     = last'.content
                /\ ( last'.answer # Web[CurrentPub.link] ) =>
                       last'.writes = 0
        /\ ( /\ written[CurrentPub.link] # None
             /\ now - written[CurrentPub.link].time <= Days(CACHE_EXPIRY_DAYS) ) =>
               /\ last'.requests = 0
               /\ last'.content = written[CurrentPub.link].metadata.content_text
    ]_vars

\* a second run labelled a publication from the entry the first run saved
\* exactly CACHE_EXPIRY_DAYS before: one read, no request, the saved text
C12_Witness ==
    /\ Processed
    /\ runs = 2
    /\ Get(LastPub, "link", << >>) # << >>
    /\ written[LastPub.link] # None
    /\ now - written[LastPub.link].time = Days(CACHE_EXPIRY_DAYS)
    /\ last.reads = 1
    /\ last.requests = 0
    /\ last.content = written[LastPub.link].metadata.content_text
    /\ last.content # << >>

\* C13: an iteration of a run with use_cache=False reads no cache entry and
\* writes none, and where it analyses content (analyze_content, a link) it
\* sends a request.
C13_NoCacheTouchesNothing ==
    ( Processed /\ args # None /\ ~args.use_cache ) =>
        /\ last.reads = 0
        /\ last.writes = 0
        /\ ( args.analyze_content /\ Get(LastPub, "link", << >>) # << >> ) =>
               last.requests >= 1

(***************************************************************************)
(* The configured expiry window (specification SpecCache)                  *)
(***************************************************************************)

\* C14: the window a get applies is Config.cache_expiry_days as it stands
\* when the get is made: a get returns the stored value exactly when a
\* readable entry exists whose age is at most that many days.
C14_WindowIsConfigured ==
    last.op = "get" =>
        IF GetFileReadable
        THEN IF now - GetFile.timestamp <= Days(cache_expiry_days)
             THEN last.value = GetFile.metadata
             ELSE last.value = None
        ELSE last.value = None

(***************************************************************************)
(* Failures inside a labeling run (specification Spec)                     *)
(***************************************************************************)

\* C15: with the tables definitions.py ships (no KNOWN_AUTHORS), no call of
\* auto_label_publications raises, whatever the list of publications, and
\* a call that was made goes on to the loop over the publications.
C15_NeverRaises ==
    ( ~known_authors_defined /\ last.op = "call" ) =>
        /\ ~last.raised
        /\ pc = "loop"

(***************************************************************************)
(* Properties of the post-processing functions (specification SpecTools)   *)
(***************************************************************************)

\* C16: filter_labels returns the publications in their order, each with
\* its other fields as they were; a publication with a non-empty label list
\* gets the labels l of that list, in their order (repetitions included),
\* with l in include (when an include list is given) and l not in exclude
\* (when an exclude list is given); a publication with an empty label list
\* or none is returned as it was; with neither list given the result is the
\* argument. Labels tech, news, paid with include [tech, news] and exclude
\* [news] give [tech].
C16_IncludeThenExclude ==
    ( last.op = "filter_labels" ) =>
        LET pubs == arg.publications
            inc == arg.include_labels
            exc == arg.exclude_labels
            Wanted(l) == /\ ( inc # << >> => \E k \in DOMAIN inc : inc[k] = l )
                         /\ ( exc # << >> => \A k \in DOMAIN exc : exc[k] # l )
        IN  /\ DOMAIN ret.value = DOMAIN pubs
            /\ \A i \in DOMAIN pubs :
                   IF "labels" \in DOMAIN pubs[i] /\ pubs[i].labels # << >>
                   THEN /\ DOMAIN ret.value[i] = DOMAIN pubs[i]
                        /\ ret.value[i].name = pubs[i].name
                        /\ ret.value[i].labels = SelectSeq(pubs[i].labels, Wanted)
                   ELSE ret.value[i] = pubs[i]
            /\ ( inc = << >> /\ exc = << >> ) => ret.value = pubs
            /\ ( /\ inc = << "tech", "news" >>
                 /\ exc = << "news" >> ) =>
                   \A i \in DOMAIN pubs :
                       LabelsOf(pubs[i]) = << "tech", "news", "paid" >> =>
                           ret.value[i].labels = << "tech" >>

\* the example of the claim, next to a publication without labels
C16_Witness ==
    /\ last.op = "filter_labels"
    /\ arg.include_labels = << "tech", "news" >>
    /\ arg.exclude_labels = << "news" >>
    /\ Len(arg.publications) = 2
    /\ LabelsOf(arg.publications[1]) = << "tech", "news", "paid" >>
    /\ "labels" \notin DOMAIN arg.publications[2]
    /\ LabelsOf(ret.value[1]) = << "tech" >>
    /\ ret.value[2] = arg.publications[2]

\* C17: find_duplicates returns one entry for each pair of indices i < j
\* whose normalised name similarity is >= the threshold or whose
\* publications have the same non-empty link, and no other entry.
C17_ExactlyTheFlaggedPairs ==
    ( last.op = "find_duplicates" ) =>
        LET pubs == arg.publications
            n == Len(pubs)
            Flagged(i, j) ==
                \/ FractionGe(calculate_similarity(Get(pubs[i + 1], "name", << >>),
                                                   Get(pubs[j + 1], "name", << >>)),
                              arg.similarity_threshold)
                \/ /\ Get(pubs[i + 1], "link", << >>) # << >>
                   /\ Get(pubs[i + 1], "link", << >>)
                         = Get(pubs[j + 1], "link", << >>)
        IN  /\ \A k \in DOMAIN ret.value :
                   /\ 0 <= ret.value[k].i
                   /\ ret.value[k].i < ret.value[k].j
                   /\ ret.value[k].j < n
            /\ \A i \in 0..(n - 1), j \in 0..(n - 1) :
                   i < j =>
                       Cardinality({ k \in DOMAIN ret.value :
                                       /\ ret.value[k].i = i
                                       /\ ret.value[k].j = j })
                           = IF Flagged(i, j) THEN 1 ELSE 0

(***************************************************************************)
(* Whole-word matching (specification SpecScore)                           *)
(***************************************************************************)

\* C18: for keywords made of words separated by single spaces (as all the
\* shipped ones are), a keyword counts for a source exactly when its words
\* stand in the source as whole words, one after the other with only
\* whitespace between them, in any letter case: the evidence for the pair
\* is returned exactly then, and the score is the sum of the weights of
\* those pairs. `ai` counts for nothing in a name `Said So` and for the
\* weight of the name in `AI startup`.
C18_WholeWordMatching ==
    ret # None =>
        LET \* the words of text: maximal runs of word characters
            Spans(text) ==
                { w \in (1..Len(text)) \X (1..Len(text)) :
                    /\ w[1] <= w[2]
                    /\ \A k \in w[1]..w[2] : IsWordChar(text[k])
                    /\ w[1] = 1 \/ ~IsWordChar(text[w[1] - 1])
                    /\ w[2] = Len(text) \/ ~IsWordChar(text[w[2] + 1]) }
            RECURSIVE PhraseAt(_, _, _, _)
            PhraseAt(text, w, words, n) ==
                /\ Lower(SubSeq(text, w[1], w[2])) = Lower(words[n])
                /\ \/ n = Len(words)
                   \/ \E x \in Spans(text) :
                          /\ x[1] > w[2] + 1
                          /\ \A k \in (w[2] + 1)..(x[1] - 1) : IsSpace(text[k])
                          /\ PhraseAt(text, x, words, n + 1)
            Stands(text, keyword) ==
                \E w \in Spans(text) : PhraseAt(text, w, Split(keyword, " "), 1)
            Evidence(keyword, source) ==
                keyword \o CASE source = "author_bio" -> <<" ","i","n"," ","a","u","t","h","o","r"," ","b","i","o">>
                             [] source = "name" -> <<" ","i","n"," ","n","a","m","e">>
                             [] source = "url_keywords" -> <<" ","i","n"," ","U","R","L">>
                             [] source = "author" -> <<" ","i","n"," ","a","u","t","h","o","r">>
                             [] source = "content" -> <<" ","i","n"," ","c","o","n","t","e","n","t">>
            \* the text of a source as given, the URL tokens joined by spaces
            Text(source) ==
                IF source = "url_keywords"
                THEN Join(Get(arg.text_sources, source, << >>), <<" ">>)
                ELSE Get(arg.text_sources, source, << >>)
            standing ==
                { pair \in ( DOMAIN arg.keywords ) \X ScoreSources :
                    Stands(Text(pair[2]), arg.keywords[pair[1]]) }
        IN  /\ \A pair \in ( DOMAIN arg.keywords ) \X ScoreSources :
                   pair \in standing
                       <=> \E e \in DOMAIN ret.matches :
                              ret.matches[e]
                                 = Evidence(arg.keywords[pair[1]], pair[2])
            /\ ret.score = SumOfWeights(standing)

\* the keyword `ai` was scored on a name in which it is only inside a word
\* (`Said So`) and an author in which it is a word of its own, capitalised
\* (`Tech Ai`): the author's weight and nothing for the name
C18_Witness ==
    /\ ret # None
    /\ arg.keywords = << <<"a","i">> >>
    /\ Get(arg.text_sources, "name", << >>) = <<"S","a","i","d"," ","S","o">>
    /\ Get(arg.text_sources, "author", << >>) = <<"T","e","c","h"," ","A","i">>
    /\ Get(arg.text_sources, "content", << >>) = << >>
    /\ Get(arg.text_sources, "author_bio", << >>) = << >>
    /\ Get(arg.text_sources, "url_keywords", << >>) = << <<"m","b","o","x">>, <<"p">> >>
    /\ ret.matches = << <<"a","i"," ","i","n"," ","a","u","t","h","o","r">> >>
    /\ ret.score = Points(WEIGHT_AUTHOR)

\* C19: extract_url_keywords returns the empty list for the empty URL and
\* for a URL made only of whitespace; for any other URL no returned token is
\* one of www, com, org, net, io, co, substack, and the tokens are those of
\* the host followed by those of the path.
C19_UrlKeywords ==
    ( last.op = "extract_url_keywords" ) =>
        IF \A k \in DOMAIN arg.url : IsSpace(arg.url[k])
        THEN ret.value = << >>
        ELSE LET parsed == urlparse(Lower(arg.url))
                 host == Split(parsed.netloc, ".")
                 path == Split(Strip(parsed.path, {"/"}), "/")
                 NotStop(token) == token \notin UrlStopTokens
             IN  /\ \A k \in DOMAIN ret.value : NotStop(ret.value[k])
                 /\ ret.value = SelectSeq(host, NotStop) \o SelectSeq(path, NotStop)

(***************************************************************************)
(* Concurrent saves (specification SpecRace)                               *)
(***************************************************************************)

\* C20: once both writers are done, the entry of each URL written is the
\* complete value (URL and metadata) of one of the writers to that URL, so
\* that writers to different URLs each find their own; and a get made at
\* any moment does not raise and returns None or the complete metadata of
\* one of the writers to its URL.
C20_ConcurrentSavesSafe ==
    /\ ( \A w \in Writers : pc[w] = "done" ) =>
           \A w \in Writers :
               \E v \in Writers :
                   /\ args[v].url = args[w].url
                   /\ Unpickled(cache_files)[CacheFile(args[w].url)]
                         = [ timestamp |-> now, url |-> args[v].url,
                             metadata |-> args[v].metadata ]
    /\ ( last.op = "get" ) =>
           /\ ~last.raised
           /\ \/ last.value = None
              \/ \E v \in Writers :
                     /\ args[v].url = last.url
                     /\ last.value = args[v].metadata

(***************************************************************************)
(* What labeling and filtering leave alone (specification Spec)            *)
(***************************************************************************)

\* C21: no step of auto_label_publications and no filter_labels changes the
\* number or the order of the publications or any field of a publication
\* other than labels; an iteration changes no publication but its own, and
\* an iteration that skips changes none.
C21_OnlyLabelsChange ==
    [][
    /\ Len(publications') = Len(publications)
    /\ \A i \in DOMAIN publications :
           /\ Unlabeled(publications'[i]) = Unlabeled(publications[i])
           /\ ( "labels" \in DOMAIN publications[i] ) =>
                  "labels" \in DOMAIN publications'[i]
           /\ ( last'.op = "label" /\ i # last'.index ) =>
                  publications'[i] = publications[i]
    /\ ( last'.op = "label" /\ last'.skipped ) => publications' = publications
    /\ ( last'.op \notin { "label", "filter" } ) => publications' = publications
    ]_vars

\* a run gave a publication that had no labels field its labels, and the
\* filter that followed took one of them away again; its name, author, link
\* and is_paid are those it came with
C21_Witness ==
    /\ last.op = "filter"
    /\ \E i \in DOMAIN publications :
           /\ publications[i].name = <<"T","e","c","h"," ","N","o","t","e","s">>
           /\ publications[i].author = <<"A","n","n">>
           /\ publications[i].link = Link1
           /\ publications[i].is_paid = TRUE
           /\ LabelsOf(publications[i]) # << >>
           /\ Len(LabelsOf(publications[i]))
                 < Len(LabelsOf(snapshot.publications[i]))

(***************************************************************************)
(* Fetching (specification Spec)                                           *)
(***************************************************************************)

\* C22: an iteration all of whose requests failed (the last one timed out
\* or raised another error) does not raise: it has the empty text as
\* content, scores and labels the publication as with no content, and
\* writes nothing to the cache, which is as it was.
C22_AllFetchesFail ==
    [][
    ( /\ last'.op = "label"
      /\ ~last'.skipped
      /\ last'.requests >= 1
      /\ last'.answer \in { Timeout, Failure } ) =>
        /\ last'.content = << >>
        /\ last'.writes = 0
        /\ cache_dir' = cache_dir
        /\ cache_files' = cache_files
        /\ last'.scores = ClassifyOf(publications[idx], << >>).scores
        /\ LabelsOf(publications'[idx]) = ClassifyOf(publications[idx], << >>).labels
        /\ idx' = idx + 1
    ]_vars

\* two requests for a page timed out; the publication was labelled from
\* its name, author and URL alone and no cache entry was made
C22_Witness ==
    /\ Processed
    /\ last.requests = ANALYZE_MAX_RETRIES
    /\ last.answer = Timeout
    /\ last.content = << >>
    /\ last.writes = 0
    /\ ~cache_dir
    /\ Len(LabelsOf(LastPub)) >= 1

\* C23: in one labelling of a publication its URL is requested at most
\* Config.max_retries times.
C23_RetriesLimitRequests ==
    ( last.op = "label" /\ ~last.skipped ) => last.requests <= config_max_retries

(***************************************************************************)
(* The fallback block (specification SpecTools)                            *)
(***************************************************************************)

\* C24: a publication that reached the fallback block and has a token of
\* the URL tables among its URL tokens carries the label of that token's
\* table.
C24_UrlTablesAddLabels ==
    LET Tables ==
            { [ tokens |-> { <<"t","e","c","h">>, <<"c","o","d","e">>, <<"d","e","v">>, <<"e","n","g","i","n","e","e","r","i","n","g">> },
                label |-> <<"t","e","c","h">> ],
              [ tokens |-> { <<"n","e","w","s">>, <<"d","a","i","l","y">>, <<"w","e","e","k","l","y">>, <<"n","e","w","s","l","e","t","t","e","r">> },
                label |-> <<"n","e","w","s">> ],
              [ tokens |-> { <<"m","u","s","i","c">>, <<"b","a","n","d">>, <<"a","l","b","u","m">> }, label |-> <<"m","u","s","i","c">> ],
              [ tokens |-> { <<"o","b","j","e","c","t","i","o","n">>, <<"l","e","g","a","l">>, <<"l","a","w","y","e","r">> },
                label |-> <<"l","a","w">> ] }
    IN  ( last.op = "classify" /\ ret.value.fallback_ran ) =>
            \A table \in Tables :
                ( table.tokens \cap Range(ret.value.url_keywords) # { } ) =>
                    table.label \in Range(ret.value.labels)

\* C25: in the fallback block "writing" is appended once by each of three
\* rules that applies: the author is contained in the name; the author is
\* empty or equal to the name; the name contains "'s " or "by" while none of
\* the law and music words of the name rules is in the name.  The URL rule
\* appends no "writing" and takes none away.
C25_WritingRules ==
    LET name_lower == Lower(Get(arg.pub, "name", << >>))
        author_lower == Lower(Get(arg.pub, "author", << >>))
        In(words) == \E w \in words : Contains(name_lower, w)
        Personal == author_lower # << >> /\ name_lower # << >>
                        /\ Contains(name_lower, author_lower)
        SingleAuthor == author_lower = << >> \/ author_lower = name_lower
        Possessive == /\ In({ <<"'","s"," ">>, <<"b","y">> })
                      /\ ~In({ <<"o","b","j","e","c","t","i","o","n">>, <<"l","a","w","y","e","r">>, <<"l","e","g","a","l">> })
                      /\ ~In({ <<"m","u","s","i","c">>, <<"b","a","n","d">>, <<"s","o","n","g">> })
        Times(cond) == IF cond THEN 1 ELSE 0
        added == ret.value.fallback_labels
    IN  ( last.op = "classify" /\ ret.value.fallback_ran ) =>
            /\ Cardinality({ i \in DOMAIN added : added[i] = <<"w","r","i","t","i","n","g">> })
                   = Times(Personal) + Times(SingleAuthor) + Times(Possessive)
            /\ <<"w","r","i","t","i","n","g">> \in Range(ret.value.labels)
                   <=> ( Personal \/ SingleAuthor \/ Possessive )

\* "Bo's Band" by Ann: the name rule added music and the possessive rule
\* added nothing
C25_Witness ==
    /\ last.op = "classify"
    /\ ret.value.fallback_ran
    /\ Contains(Lower(arg.pub.name), <<"'","s"," ">>)
    /\ <<"m","u","s","i","c">> \in Range(ret.value.fallback_labels)
    /\ <<"w","r","i","t","i","n","g">> \notin Range(ret.value.labels)

(***************************************************************************)
(* extract_metadata (specification SpecTools)                              *)
(***************************************************************************)

\* the requests of the latest extract_metadata against the answers: no more
\* than max_retries, each but the last one answered by a timeout, and fewer
\* than max_retries only when the cache answered or the last request got a
\* page or an error that is no timeout
RequestsFollowAnswers ==
    /\ last.requests <= last.max_retries
    /\ \A k \in 1..(last.requests - 1) : last.net[k] = Timeout
    /\ ( last.requests < last.max_retries /\ ~Truthy(last.cached) ) =>
           last.requests >= 1 /\ last.net[last.requests] # Timeout
    /\ ( last.requests >= 1 /\ last.net[last.requests] \notin { Timeout, Failure } ) =>
           ret.value = PageMetadata(last.net[last.requests])
    /\ ( last.requests >= 1 /\ last.net[last.requests] \in { Timeout, Failure } ) =>
           ret.value = EmptyMetadata

\* C26 as stated: extract_metadata returns a metadata record after at most
\* max_retries requests, sends another request only after a timeout, stops
\* at the first page or error that is no timeout, and with max_retries = 0
\* sends no request and returns the empty record.
C26_ZeroRetriesEmptyRecord ==
    ( last.op = "extract_metadata" ) =>
        /\ RequestsFollowAnswers
        /\ last.max_retries = 0 => last.requests = 0 /\ ret.value = EmptyMetadata

\* C26, amended: as above, and a call that sends no request returns the
\* record of the cache when use_cache is set and the cache holds a fresh
\* entry for the URL, the empty record otherwise.
C26_BoundedRequests ==
    ( last.op = "extract_metadata" ) =>
        /\ RequestsFollowAnswers
        /\ last.max_retries = 0 => last.requests = 0
        /\ last.requests = 0 =>
               ret.value = IF Truthy(last.cached) THEN last.cached ELSE EmptyMetadata

\* a call with max_retries = 0 after a call that fetched and cached the page
C26_Witness ==
    /\ last.op = "extract_metadata"
    /\ last.max_retries = 0
    /\ last.requests = 0
    /\ runs = ExtractCalls
    /\ ret.value = PageMetadata(Web[arg.url])

(***************************************************************************)
(* The icons of scrape_substack_reads (specification SpecTools)            *)
(***************************************************************************)

\* C27: the publications scrape_substack_reads returns are the same with
\* parallel_downloads set and unset; none has the key _image_task; and a
\* publication has an icon exactly when its own row had an image that could
\* be downloaded, and the icon is the file of its own task.
C27_SameIconsBothPaths ==
    ( last.op = "scrape_substack_reads" ) =>
        /\ ret.value = scrape_substack_reads(arg.rows, arg.download_images,
                                             ~arg.parallel_downloads)
        /\ \A i \in DOMAIN ret.value :
               LET pub == ret.value[i]
                   row == CHOOSE r \in Range(arg.rows) : r.name = pub.name
               IN  /\ "_image_task" \notin DOMAIN pub
                   /\ "icon" \in DOMAIN pub
                          <=> ( arg.download_images /\ row.image /\ row.ok )
                   /\ "icon" \in DOMAIN pub => pub.icon = << "images", pub.name >>

(***************************************************************************)
(* Base and focused labels (specification Spec)                            *)
(***************************************************************************)

\* C28: until filter_labels runs, a publication that has the label
\* X-focused of a category X has the label X; and a category whose score is
\* positive has a score of at least 1 and gives the publication its base
\* label.
C28_FocusedImpliesBase ==
    /\ pc # "filtered" =>
           \A i \in DOMAIN publications : \A category \in Categories :
               ( category \o <<"-","f","o","c","u","s","e","d">> ) \in Range(LabelsOf(publications[i]))
                   => category \in Range(LabelsOf(publications[i]))
    /\ Processed =>
           \A category \in Categories :
               last.scores[category] > 0 =>
                   /\ last.scores[category] >= Points(BASE_THRESHOLD)
                   /\ category \in Range(last.threshold_labels)
                   /\ category \in Range(LabelsOf(LastPub))

\* a publication with a category's base and focused labels, and a
\* publication with a base label without the focused one
C28_Witness ==
    /\ Processed
    /\ \E category \in Categories :
           /\ last.scores[category] >= Points(FOCUSED_THRESHOLD)
           /\ { category, category \o <<"-","f","o","c","u","s","e","d">> } \subseteq Range(LabelsOf(LastPub))
    /\ \E i \in DOMAIN publications, category \in Categories :
           /\ category \in Range(LabelsOf(publications[i]))
           /\ ( category \o <<"-","f","o","c","u","s","e","d">> ) \notin Range(LabelsOf(publications[i]))

(***************************************************************************)
(* URL tokens and the shipped keyword tables (specification SpecTools)     *)
(***************************************************************************)

\* C29: each of tech, news, daily, weekly, newsletter and music is a
\* keyword of the shipped tables (of tech, news, news, news, writing and
\* culture); a publication with one of them among its URL tokens scores at
\* least 2 in that category and does not reach the fallback block; and
\* every label the fallback block adds is one of its name rules' or the
\* table label of a URL token among code, engineering, band, album,
\* objection, legal and lawyer.
C29_ScoredTokensSkipFallback ==
    LET Scored == { << <<"t","e","c","h">>, <<"t","e","c","h">> >>, << <<"n","e","w","s">>, <<"n","e","w","s">> >>,
                    << <<"d","a","i","l","y">>, <<"n","e","w","s">> >>, << <<"w","e","e","k","l","y">>, <<"n","e","w","s">> >>,
                    << <<"n","e","w","s","l","e","t","t","e","r">>, <<"w","r","i","t","i","n","g">> >>, << <<"m","u","s","i","c">>, <<"c","u","l","t","u","r","e">> >> }
        Effective == { << <<"c","o","d","e">>, <<"t","e","c","h">> >>, << <<"e","n","g","i","n","e","e","r","i","n","g">>, <<"t","e","c","h">> >>,
                       << <<"b","a","n","d">>, <<"m","u","s","i","c">> >>, << <<"a","l","b","u","m">>, <<"m","u","s","i","c">> >>,
                       << <<"o","b","j","e","c","t","i","o","n">>, <<"l","a","w">> >>, << <<"l","e","g","a","l">>, <<"l","a","w">> >>,
                       << <<"l","a","w","y","e","r">>, <<"l","a","w">> >> }
        name_lower == Lower(Get(arg.pub, "name", << >>))
        In(words) == \E w \in words : Contains(name_lower, w)
        NameLabels == { <<"w","r","i","t","i","n","g">> }
                      \cup ( IF In({ <<"o","b","j","e","c","t","i","o","n">>, <<"l","a","w","y","e","r">>, <<"l","e","g","a","l">> })
                             THEN { <<"l","a","w">> } ELSE { } )
                      \cup ( IF In({ <<"m","u","s","i","c">>, <<"b","a","n","d">>, <<"s","o","n","g">> })
                             THEN { <<"m","u","s","i","c">> } ELSE { } )
    IN  /\ \A pair \in Scored : pair[1] \in Range(KEYWORD_CATEGORIES[pair[2]])
        /\ ( last.op = "classify" ) =>
               /\ \A pair \in Scored :
                      pair[1] \in Range(ret.value.url_keywords) =>
                          /\ ret.value.scores[pair[2]] >= Points(WEIGHT_URL)
                          /\ ~ret.value.fallback_ran
                          /\ ret.value.fallback_labels = << >>
               /\ \A label \in Range(ret.value.fallback_labels) \ NameLabels :
                      \E pair \in Effective :
                          /\ pair[1] \in Range(ret.value.url_keywords)
                          /\ pair[2] = label

\* the site music.substack.com: culture scored 2 from the URL, and the
\* publication has the label culture and not the label music of the URL table
C29_Witness ==
    /\ last.op = "classify"
    /\ <<"m","u","s","i","c">> \in Range(ret.value.url_keywords)
    /\ ret.value.scores[<<"c","u","l","t","u","r","e">>] = Points(WEIGHT_URL)
    /\ ~ret.value.fallback_ran
    /\ <<"c","u","l","t","u","r","e">> \in Range(ret.value.labels)
    /\ <<"m","u","s","i","c">> \notin Range(ret.value.labels)

(***************************************************************************)
(* A save that fails part-way (specification SpecCache)                    *)
(***************************************************************************)

\* C30: a save_cached_metadata that fails after opening the entry file and
\* before pickle.dump completed leaves every URL's answer from
\* get_cached_metadata as it was before the call.
C30_FailedSaveKeepsEntries ==
    [][
    ( last'.op = "save" /\ last'.outcome = "dump_fails" ) =>
        \A url \in CacheUrls :
            get_cached_metadata(url, cache_dir', cache_files', now').value
                = get_cached_metadata(url, cache_dir, cache_files, now).value
    ]_vars

=============================================================================
